---------------------------- MODULE Spec2Model ----------------------------
(***************************************************************************)
(* Commitment enforcement middleware of src/proxy/server-simple.js         *)
(* (class CommitmentEnforcer, lines 168-784).                              *)
(*                                                                         *)
(* A JavaScript string is modelled as the sequence of its UTF-16 code      *)
(* units, so that includes(), toLowerCase(), replace(), split() and the    *)
(* regular expressions of the validators are computed, not assumed.        *)
(* Scores are exact rationals [n, d] (d = 0 is NaN): the validators divide *)
(* counts by lengths, and 0/0 is a value the code can produce.             *)
(***************************************************************************)
EXTENDS Integers, Sequences, FiniteSets, TLC

--------------------------------------------------------------------------
(* String constants of the source, as UTF-16 code units.                  *)

\* AGENT_COMMITMENTS key 1 (al-muhasib al-dhaki, the smart accountant)
Accountant ==
    <<1575, 1604, 1605, 1581, 1575, 1587, 1576, 32, 1575, 1604, 1584, 1603,
    1610>>

\* AGENT_COMMITMENTS key 2 (al-sikritir al-raqami, the digital secretary)
Secretary ==
    <<1575, 1604, 1587, 1603, 1585, 1578, 1610, 1585, 32, 1575, 1604, 1585,
    1602, 1605, 1610>>

\* AGENT_COMMITMENTS key 3 (al-mubarmij al-musaid, the assistant programmer)
Programmer ==
    <<1575, 1604, 1605, 1576, 1585, 1605, 1580, 32, 1575, 1604, 1605, 1587,
    1575, 1593, 1583>>

\* validateZatcaCompliance: zatcaKeywords, as written (the validator lower-cases them)
zatcaKeywords ==
    << <<1590, 1585, 1610, 1576, 1577, 32, 1575, 1604, 1602, 1610, 1605,
    1577, 32, 1575, 1604, 1605, 1590, 1575, 1601, 1577>>, <<1575, 1604,
    1585, 1602, 1605, 32, 1575, 1604, 1590, 1585, 1610, 1576, 1610>>,
    <<1601, 1575, 1578, 1608, 1585, 1577, 32, 1590, 1585, 1610, 1576, 1610,
    1577>>, <<1586, 1575, 1578, 1603, 1575>>, <<90, 65, 84, 67, 65>>, <<86,
    65, 84>>, <<84, 97, 120, 32, 73, 110, 118, 111, 105, 99, 101>> >>

\* validateZatcaCompliance: trigger phrase (fatura, invoice)
TriggerFatura ==
    <<1601, 1575, 1578, 1608, 1585, 1577>>

\* validateZatcaCompliance: trigger phrase 'invoice'
TriggerInvoice ==
    <<105, 110, 118, 111, 105, 99, 101>>

\* validateProfessionalTone: professionalIndicators
professionalIndicators ==
    << <<1610, 1605, 1603, 1606, 1606, 1610>>, <<1571, 1587, 1578, 1591,
    1610, 1593>>, <<1610, 1587, 1593, 1583, 1606, 1610>>, <<1571, 1606,
    1589, 1581>>, <<1571, 1602, 1578, 1585, 1581>>, <<1605, 1606, 32, 1575,
    1604, 1605, 1607, 1605>>, <<1610, 1580, 1576>>, <<1606, 1608, 1589,
    1610>>, <<1575, 1604, 1605, 1591, 1604, 1608, 1576>> >>

\* validateProfessionalTone: casualIndicators (hay, marhaba, oki, tamam, kul)
casualIndicators ==
    << <<1607, 1575, 1610>>, <<1605, 1585, 1581, 1576, 1575>>, <<1575,
    1608, 1603, 1610>>, <<1578, 1605, 1575, 1605>>, <<1603, 1608, 1604>> >>

\* validateSecurityCompliance: securityIssues
securityIssues ==
    << <<101, 118, 97, 108, 40>>, <<105, 110, 110, 101, 114, 72, 84, 77,
    76, 32, 61>>, <<100, 111, 99, 117, 109, 101, 110, 116, 46, 119, 114,
    105, 116, 101>>, <<115, 101, 116, 84, 105, 109, 101, 111, 117, 116,
    40>>, <<115, 101, 116, 73, 110, 116, 101, 114, 118, 97, 108, 40>>,
    <<70, 117, 110, 99, 116, 105, 111, 110, 40>>, <<110, 101, 119, 32, 70,
    117, 110, 99, 116, 105, 111, 110>> >>

\* validateMultiLanguageSupport: languages
languages ==
    << <<106, 97, 118, 97, 115, 99, 114, 105, 112, 116>>, <<112, 121, 116,
    104, 111, 110>>, <<106, 97, 118, 97>>, <<99, 43, 43>>, <<99, 35>>,
    <<112, 104, 112>>, <<114, 117, 98, 121>>, <<103, 111>>, <<114, 117,
    115, 116>>, <<115, 119, 105, 102, 116>>, <<107, 111, 116, 108, 105,
    110>>, <<116, 121, 112, 101, 115, 99, 114, 105, 112, 116>> >>

\* containsCode: the six markers
codeMarkers ==
    << <<96, 96, 96>>, <<102, 117, 110, 99, 116, 105, 111, 110>>, <<99,
    108, 97, 115, 115>>, <<100, 101, 102, 32>>, <<112, 117, 98, 108, 105,
    99, 32>>, <<112, 114, 105, 118, 97, 116, 101, 32>> >>

\* checkAgentExpertise: keywords of the accountant
expertiseAccountant ==
    << <<1605, 1581, 1575, 1587, 1576, 1577>>, <<1601, 1575, 1578, 1608,
    1585, 1577>>, <<1590, 1585, 1610, 1576, 1577>>, <<1605, 1575, 1604,
    1610>>, <<1586, 1575, 1578, 1603, 1575>> >>

\* checkAgentExpertise: keywords of the secretary
expertiseSecretary ==
    << <<1605, 1608, 1593, 1583>>, <<1585, 1587, 1575, 1604, 1577>>,
    <<1578, 1606, 1592, 1610, 1605>>, <<1605, 1607, 1605, 1577>>, <<1580,
    1583, 1608, 1604, 1577>> >>

\* checkAgentExpertise: keywords of the programmer
expertiseProgrammer ==
    << <<1603, 1608, 1583>>, <<1576, 1585, 1605, 1580, 1577>>, <<1578,
    1591, 1608, 1610, 1585>>, <<1578, 1591, 1576, 1610, 1602>>, <<1582,
    1608, 1575, 1585, 1586, 1605, 1610, 1577>> >>

\* triggerHumanReview: text appended after the response
HumanReviewSuffix ==
    <<10, 10, 91, 1578, 1605, 32, 1605, 1585, 1575, 1580, 1593, 1577, 32,
    1607, 1584, 1607, 32, 1575, 1604, 1573, 1580, 1575, 1576, 1577, 32,
    1604, 1604, 1578, 1571, 1603, 1583, 32, 1605, 1606, 32, 1583, 1602,
    1578, 1607, 1575, 93>>

\* applyComplianceTemplate: templates.zatcaCompliance
ZatcaTemplate ==
    <<10, 10, 55357, 56523, 32, 1605, 1604, 1575, 1581, 1592, 1577, 58, 32,
    1610, 1585, 1580, 1609, 32, 1575, 1604, 1578, 1571, 1603, 1583, 32,
    1605, 1606, 32, 1605, 1585, 1575, 1580, 1593, 1577, 32, 1605, 1578,
    1591, 1604, 1576, 1575, 1578, 32, 1586, 1575, 1578, 1603, 1575, 32,
    1575, 1604, 1581, 1583, 1610, 1579, 1577, 32, 1604, 1604, 1601, 1608,
    1575, 1578, 1610, 1585, 32, 1575, 1604, 1590, 1585, 1610, 1576, 1610,
    1577, 46>>

\* applyComplianceTemplate: templates.securityCompliance
SecurityComplianceTemplate ==
    <<10, 10, 55357, 56594, 32, 1578, 1606, 1576, 1610, 1607, 32, 1571,
    1605, 1606, 1610, 58, 32, 1610, 1585, 1580, 1609, 32, 1605, 1585, 1575,
    1580, 1593, 1577, 32, 1575, 1604, 1603, 1608, 1583, 32, 1604, 1604,
    1578, 1571, 1603, 1583, 32, 1605, 1606, 32, 1593, 1583, 1605, 32, 1608,
    1580, 1608, 1583, 32, 1579, 1594, 1585, 1575, 1578, 32, 1571, 1605,
    1606, 1610, 1577, 46>>

\* applyStructuredTemplate: text before the response
StructuredPrefix ==
    <<55357, 56541, 32, 1575, 1604, 1573, 1580, 1575, 1576, 1577, 58, 10,
    10>>

\* applyStructuredTemplate: text after the response
StructuredSuffix ==
    <<10, 10, 1607, 1604, 32, 1578, 1581, 1578, 1575, 1580, 32, 1605, 1587,
    1575, 1593, 1583, 1577, 32, 1573, 1590, 1575, 1601, 1610, 1577, 1567>>

\* enhanceBilingualResponse: text appended
EnglishSummarySuffix ==
    <<10, 10, 91, 69, 110, 103, 108, 105, 115, 104, 32, 115, 117, 109, 109,
    97, 114, 121, 32, 97, 118, 97, 105, 108, 97, 98, 108, 101, 32, 117,
    112, 111, 110, 32, 114, 101, 113, 117, 101, 115, 116, 93>>

\* adjustTone: phrase replaced (line 657)
CasualMarhaba ==
    <<1605, 1585, 1581, 1576, 1575>>

\* adjustTone: its replacement (line 657)
FormalMarhaba ==
    <<1605, 1585, 1581, 1576, 1575, 1611, 32, 1576, 1603>>

\* adjustTone: phrase replaced (line 658)
CasualOki ==
    <<1575, 1608, 1603, 1610>>

\* adjustTone: its replacement (line 658)
FormalOki ==
    <<1581, 1587, 1606, 1575, 1611>>

\* adjustTone: phrase replaced (line 659)
CasualTamam ==
    <<1578, 1605, 1575, 1605>>

\* adjustTone: its replacement (line 659)
FormalTamam ==
    <<1605, 1605, 1578, 1575, 1586>>

\* reviewAndFixCode: text appended
CodeReviewSuffix ==
    <<10, 10, 55357, 56481, 32, 1605, 1604, 1575, 1581, 1592, 1577, 58, 32,
    1610, 1585, 1580, 1609, 32, 1605, 1585, 1575, 1580, 1593, 1577, 32,
    1575, 1604, 1603, 1608, 1583, 32, 1608, 1578, 1591, 1576, 1610, 1602,
    32, 1571, 1601, 1590, 1604, 32, 1575, 1604, 1605, 1605, 1575, 1585,
    1587, 1575, 1578, 32, 1575, 1604, 1576, 1585, 1605, 1580, 1610, 1577,
    46>>

\* applySecurityTemplate: text appended
SecurityReminderSuffix ==
    <<10, 10, 55357, 56594, 32, 1578, 1584, 1603, 1610, 1585, 32, 1571,
    1605, 1606, 1610, 58, 32, 1578, 1571, 1603, 1583, 32, 1605, 1606, 32,
    1578, 1591, 1576, 1610, 1602, 32, 1605, 1593, 1575, 1610, 1610, 1585,
    32, 1575, 1604, 1571, 1605, 1575, 1606, 32, 1575, 1604, 1605, 1606,
    1575, 1587, 1576, 1577, 46>>

\* checkArabicStructure: characters of the class in hasProperPunctuation
PunctuationChars ==
    <<1548, 1563, 1567, 33, 46>>

\* checkArabicStructure: characters of the class in hasConnectors (a character class, not an alternation)
ConnectorChars ==
    <<1608, 124, 1571, 1604, 1603, 1606, 1573, 1584, 1575, 1593, 1583,
    1605>>

--------------------------------------------------------------------------
(* JavaScript values that are not strings.  Code units are >= 0, so no     *)
(* string equals either of them.                                           *)

\* JavaScript null (returned by getCachedResponse)
Null == <<-1>>

\* JavaScript undefined (a property that is not there)
Undefined == <<-2>>

--------------------------------------------------------------------------
(* String primitives.                                                      *)

\* String.prototype.includes
Includes(s, p) ==
    \E i \in 1..(Len(s) - Len(p) + 1) : SubSeq(s, i, i + Len(p) - 1) = p

\* String.prototype.startsWith
StartsWith(s, p) == Len(s) >= Len(p) /\ SubSeq(s, 1, Len(p)) = p

\* String.prototype.endsWith, used for the regular expressions ending in $
EndsAt(s, i, p) == i >= Len(p) /\ SubSeq(s, i - Len(p) + 1, i) = p

\* String.prototype.toLowerCase on the Basic Latin letters; the Arabic
\* block has no case
ToLower(s) ==
    [i \in 1..Len(s) |-> IF s[i] >= 65 /\ s[i] <= 90 THEN s[i] + 32 ELSE s[i]]

\* Array.prototype.some(x => s.includes(x)) over a list of strings
SomeIncluded(s, list) == \E k \in 1..Len(list) : Includes(s, list[k])

\* Array.prototype.filter(x => s.includes(x)).length
CountIncluded(s, list) ==
    Cardinality({k \in 1..Len(list) : Includes(s, list[k])})

\* the character class [؀-ۿ]
IsArabic(c) == c >= 1536 /\ c <= 1791

\* the character class [a-zA-Z]
IsLatin(c) == (c >= 65 /\ c <= 90) \/ (c >= 97 /\ c <= 122)

\* the character class \d
IsDigit(c) == c >= 48 /\ c <= 57

\* the character class \s (tab, line feed, vertical tab, form feed,
\* carriage return, space, no-break space)
IsSpace(c) == c \in {9, 10, 11, 12, 13, 32, 160}

\* the character class [alef-yeh] of checkArabicGrammar
IsArabicLetter(c) == c >= 1575 /\ c <= 1610

\* /[\u0600-\u06FF]/.test(s)
HasArabic(s) == \E i \in 1..Len(s) : IsArabic(s[i])

\* /[a-zA-Z]/.test(s)
HasLatin(s) == \E i \in 1..Len(s) : IsLatin(s[i])

\* String.prototype.split(sep) for a one-character separator
RECURSIVE SplitFrom(_, _, _, _)
SplitFrom(s, sep, i, cur) ==
    IF i > Len(s) THEN <<cur>>
    ELSE IF s[i] = sep THEN <<cur>> \o SplitFrom(s, sep, i + 1, <<>>)
    ELSE SplitFrom(s, sep, i + 1, Append(cur, s[i]))

Split(s, sep) == SplitFrom(s, sep, 1, <<>>)

\* String.prototype.replace(/pat/g, rep): every match, left to right,
\* the search resuming after the match
RECURSIVE ReplaceFrom(_, _, _, _)
ReplaceFrom(s, pat, rep, i) ==
    IF i > Len(s) THEN <<>>
    ELSE IF i + Len(pat) - 1 <= Len(s) /\ SubSeq(s, i, i + Len(pat) - 1) = pat
         THEN rep \o ReplaceFrom(s, pat, rep, i + Len(pat))
         ELSE <<s[i]>> \o ReplaceFrom(s, pat, rep, i + 1)

ReplaceAll(s, pat, rep) == ReplaceFrom(s, pat, rep, 1)

\* String.prototype.replace(/\s+/g, ' '): each run of white space becomes
\* one space
RECURSIVE CollapseFrom(_, _)
CollapseFrom(s, i) ==
    IF i > Len(s) THEN <<>>
    ELSE IF IsSpace(s[i])
         THEN IF i > 1 /\ IsSpace(s[i - 1])
              THEN CollapseFrom(s, i + 1)
              ELSE <<32>> \o CollapseFrom(s, i + 1)
         ELSE <<s[i]>> \o CollapseFrom(s, i + 1)

CollapseSpaces(s) == CollapseFrom(s, 1)

\* String.prototype.trim
RECURSIVE TrimStart(_)
TrimStart(s) ==
    IF s # <<>> /\ IsSpace(s[1]) THEN TrimStart(Tail(s)) ELSE s

RECURSIVE TrimEnd(_)
TrimEnd(s) ==
    IF s # <<>> /\ IsSpace(s[Len(s)])
    THEN TrimEnd(SubSeq(s, 1, Len(s) - 1)) ELSE s

Trim(s) == TrimEnd(TrimStart(s))

--------------------------------------------------------------------------
(* Scores: exact rationals; d = 0 stands for NaN.                          *)

RECURSIVE GCD(_, _)
GCD(a, b) == IF b = 0 THEN a ELSE GCD(b, a % b)

Abs(x) == IF x < 0 THEN -x ELSE x

Num(x) == [n |-> x, d |-> 1]

\* a / b in lowest terms, for b >= 0; 0 / 0 is NaN (the code never
\* divides a non-zero count by zero)
Ratio(a, b) ==
    IF b = 0 THEN [n |-> 0, d |-> 0]
    ELSE LET g == GCD(Abs(a), b) IN [n |-> a \div g, d |-> b \div g]

NaN == [n |-> 0, d |-> 0]

IsNaN(x) == x.d = 0

\* a >= b of JavaScript numbers: false as soon as one side is NaN
GreaterEq(a, b) == a.d > 0 /\ b.d > 0 /\ a.n * b.d >= b.n * a.d

\* a <= b of JavaScript numbers
LessEq(a, b) == a.d > 0 /\ b.d > 0 /\ a.n * b.d <= b.n * a.d

\* a < b of JavaScript numbers
Less(a, b) == a.d > 0 /\ b.d > 0 /\ a.n * b.d < b.n * a.d

\* a > b of JavaScript numbers
Greater(a, b) == a.d > 0 /\ b.d > 0 /\ a.n * b.d > b.n * a.d

\* Math.min(100, x) and Math.max(0, x); both give NaN for NaN
Min100(x) == IF IsNaN(x) THEN NaN ELSE IF Less(Num(100), x) THEN Num(100) ELSE x

Max0(x) == IF x < 0 THEN 0 ELSE x

\* a + b of JavaScript numbers
Plus(a, b) ==
    IF IsNaN(a) \/ IsNaN(b) THEN NaN
    ELSE Ratio(a.n * b.d + b.n * a.d, a.d * b.d)

\* a / k for a positive integer k
DivBy(a, k) == IF IsNaN(a) THEN NaN ELSE Ratio(a.n, a.d * k)

--------------------------------------------------------------------------
(* Helper methods of CommitmentEnforcer.                                   *)

containsCode(text) == SomeIncluded(text, codeMarkers)

checkIndentation(code) ==
    LET lines == Split(code, 10)
    IN  \E k \in 1..Len(lines) :
            StartsWith(lines[k], <<32, 32>>) \/ StartsWith(lines[k], <<9>>)

\* /[a-zA-Z_][a-zA-Z0-9_]*/.test(code): one character of the first class
\* is a match
checkNamingConventions(code) ==
    \E i \in 1..Len(code) : IsLatin(code[i]) \/ code[i] = 95

checkFactualConsistency(response) == Num(95)

checkContextRelevance(response, message) ==
    LET messageWords == Split(ToLower(message), 32)
        responseWords == Split(ToLower(response), 32)
        commonWords ==
            {i \in 1..Len(messageWords) :
                /\ \E j \in 1..Len(responseWords) :
                      responseWords[j] = messageWords[i]
                /\ Len(messageWords[i]) > 3}
    IN  Min100(Ratio(Cardinality(commonWords) * 100, Len(messageWords)))

\* expertiseKeywords[agent] || []
expertiseKeywords(agent) ==
    IF agent = Accountant THEN expertiseAccountant
    ELSE IF agent = Secretary THEN expertiseSecretary
    ELSE IF agent = Programmer THEN expertiseProgrammer
    ELSE <<>>

checkAgentExpertise(response, agent) ==
    LET keywords == expertiseKeywords(agent)
        matchedKeywords == CountIncluded(ToLower(response), keywords)
    IN  Ratio(matchedKeywords * 100, Len(keywords))

\* the number of matches of /al[alef-yeh]/g: left to right, not overlapping
RECURSIVE CountDefiniteFrom(_, _)
CountDefiniteFrom(text, i) ==
    IF i + 2 > Len(text) THEN 0
    ELSE IF text[i] = 1575 /\ text[i + 1] = 1604 /\ IsArabicLetter(text[i + 2])
         THEN 1 + CountDefiniteFrom(text, i + 3)
         ELSE CountDefiniteFrom(text, i + 1)

\* one match of /[alef-yeh]<ending>$/g when the text ends with a letter of
\* the class followed by the ending
EndingMatches(text, ending) ==
    IF /\ Len(text) > Len(ending)
       /\ EndsAt(text, Len(text), ending)
       /\ IsArabicLetter(text[Len(text) - Len(ending)])
    THEN 1 ELSE 0

checkArabicGrammar(text) ==
    LET matches == CountDefiniteFrom(text, 1)
                   + EndingMatches(text, <<1577>>)
                   + EndingMatches(text, <<1610, 1606>>)
                   + EndingMatches(text, <<1575, 1578>>)
    IN  IF matches * 10 > 100 THEN 100 ELSE matches * 10

checkArabicStructure(text) ==
    LET hasProperPunctuation ==
            \E i \in 1..Len(text) :
                \E k \in 1..Len(PunctuationChars) : text[i] = PunctuationChars[k]
        hasConnectors ==
            \E i \in 1..Len(text) :
                \E k \in 1..Len(ConnectorChars) : text[i] = ConnectorChars[k]
    IN  (IF hasProperPunctuation THEN 50 ELSE 0)
        + (IF hasConnectors THEN 50 ELSE 0)

--------------------------------------------------------------------------
(* Validation methods, one per commitment type.                            *)

validateAccuracy(response, message, agent) ==
    DivBy(Plus(Plus(checkFactualConsistency(response),
                    checkContextRelevance(response, message)),
               checkAgentExpertise(response, agent)), 3)

\* validateZatcaCompliance without the applicability test
validateZatcaAlways(response, message) ==
    IF \E k \in 1..Len(zatcaKeywords) :
           Includes(ToLower(response), ToLower(zatcaKeywords[k]))
    THEN Num(100) ELSE Num(0)

validateZatcaCompliance(response, message) ==
    LET lowerMessage == ToLower(message)
        lowerResponse == ToLower(response)
    IN  IF /\ ~Includes(lowerMessage, TriggerFatura)
           /\ ~Includes(lowerMessage, TriggerInvoice)
        THEN Num(100)
        ELSE IF \E k \in 1..Len(zatcaKeywords) :
                    Includes(lowerResponse, ToLower(zatcaKeywords[k]))
             THEN Num(100) ELSE Num(0)

validateArabicQuality(response) ==
    LET arabicChars == Cardinality({i \in 1..Len(response) : IsArabic(response[i])})
        totalChars == Len(response)
        grammarScore == checkArabicGrammar(response)
        structureScore == checkArabicStructure(response)
    IN  Plus(Ratio(arabicChars * 40, totalChars),
             Num(grammarScore * 30 + structureScore * 30))

validateOrganization(response, message) ==
    LET indicators ==
            << Includes(response, <<8226>>) \/ Includes(response, <<45>>),
               Includes(response, <<10>>),
               Includes(response, <<58>>),
               \E i \in 1..(Len(response) - 1) :
                   IsDigit(response[i]) /\ response[i + 1] = 46 >>
        present == Cardinality({k \in 1..4 : indicators[k]})
    IN  Ratio(present * 100, 4)

validateBilingualSupport(response, message) ==
    LET hasArabic == HasArabic(response)
        hasEnglish == HasLatin(response)
        messageHasArabic == HasArabic(message)
        messageHasEnglish == HasLatin(message)
    IN  IF messageHasArabic /\ messageHasEnglish
        THEN (IF hasArabic /\ hasEnglish THEN Num(100) ELSE Num(50))
        ELSE (IF hasArabic THEN Num(100) ELSE Num(80))

validateProfessionalTone(response) ==
    LET professionalCount == CountIncluded(response, professionalIndicators)
        casualCount == CountIncluded(response, casualIndicators)
    IN  Num(Max0(professionalCount * 20 - casualCount * 10))

\* validateCodeQuality without the applicability test of line 564
validateCodeQualityUnconditional(response, message) ==
    LET qualityChecks ==
            << Includes(response, <<96, 96, 96>>),
               Includes(response, <<47, 47>>) \/ Includes(response, <<47, 42>>),
               checkIndentation(response),
               checkNamingConventions(response) >>
        passedChecks == Cardinality({k \in 1..4 : qualityChecks[k]})
    IN  Ratio(passedChecks * 100, 4)

validateCodeQuality(response, message) ==
    IF ~containsCode(response) THEN Num(100)
    ELSE LET qualityChecks ==
                 << Includes(response, <<96, 96, 96>>),
                    Includes(response, <<47, 47>>) \/ Includes(response, <<47, 42>>),
                    checkIndentation(response),
                    checkNamingConventions(response) >>
             passedChecks == Cardinality({k \in 1..4 : qualityChecks[k]})
         IN  Ratio(passedChecks * 100, 4)

\* validateSecurityCompliance without the applicability test of line 578
validateSecurityUnconditional(response) ==
    IF SomeIncluded(response, securityIssues) THEN Num(0) ELSE Num(100)

validateSecurityCompliance(response) ==
    IF ~containsCode(response) THEN Num(100)
    ELSE IF SomeIncluded(response, securityIssues) THEN Num(0) ELSE Num(100)

validateMultiLanguageSupport(response, message) ==
    LET lowerMessage == ToLower(message)
        found == {k \in 1..Len(languages) : Includes(lowerMessage, languages[k])}
    IN  IF found = {} THEN Num(100)
        ELSE LET requestedLanguage ==
                     languages[CHOOSE k \in found : \A m \in found : k <= m]
             IN  IF Includes(ToLower(response), requestedLanguage)
                 THEN Num(100) ELSE Num(50)


--------------------------------------------------------------------------
(* The commitment registry.  Object.entries yields the rules of a profile  *)
(* in the order they are written.                                          *)

Rule(type, target, enforcement, fallback) ==
    [type |-> type, target |-> target, enforcement |-> enforcement,
     fallback |-> fallback]

AccountantCommitments ==
    << Rule("accuracy", Ratio(999, 10), "STRICT", "human_review"),
       Rule("responseTime", Num(2000), "STRICT", "cached_response"),
       Rule("zatcaCompliance", Num(100), "MANDATORY", "compliance_template"),
       Rule("arabicQuality", Num(95), "STRICT", "language_correction") >>

SecretaryCommitments ==
    << Rule("organizationQuality", Num(100), "STRICT", "structured_template"),
       Rule("bilingualSupport", Num(100), "MANDATORY", "translation_service"),
       Rule("professionalTone", Num(98), "STRICT", "tone_adjustment") >>

ProgrammerCommitments ==
    << Rule("codeQuality", Num(95), "STRICT", "code_review"),
       Rule("securityCompliance", Num(100), "MANDATORY", "security_template"),
       Rule("multiLanguageSupport", Num(100), "MANDATORY", "language_detection") >>

\* the own keys of AGENT_COMMITMENTS
RegistryKeys == {Accountant, Secretary, Programmer}

\* 'constructor': a property every object literal inherits from
\* Object.prototype, so AGENT_COMMITMENTS['constructor'] is a function
\* (truthy) whose Object.entries is empty
ConstructorKey == <<99, 111, 110, 115, 116, 114, 117, 99, 116, 111, 114>>

InheritedKeys == {ConstructorKey}

\* AGENT_COMMITMENTS[agent] is truthy
HasCommitments(agent) == agent \in RegistryKeys \/ agent \in InheritedKeys

\* Object.entries(AGENT_COMMITMENTS[agent])
AGENT_COMMITMENTS(agent) ==
    IF agent = Accountant THEN AccountantCommitments
    ELSE IF agent = Secretary THEN SecretaryCommitments
    ELSE IF agent = Programmer THEN ProgrammerCommitments
    ELSE <<>>

--------------------------------------------------------------------------
(* Enforcement action implementations.                                     *)

triggerHumanReview(response, violation) == response \o HumanReviewSuffix

getCachedResponse(message, agent) == Null

applyComplianceTemplate(response, commitmentType) ==
    response \o (IF commitmentType = "zatcaCompliance" THEN ZatcaTemplate
                 ELSE IF commitmentType = "securityCompliance"
                      THEN SecurityComplianceTemplate
                      ELSE <<>>)

correctLanguage(response) == Trim(CollapseSpaces(response))

applyStructuredTemplate(response, message) ==
    IF Includes(response, <<10>>) \/ Includes(response, <<8226>>)
    THEN response
    ELSE StructuredPrefix \o response \o StructuredSuffix

enhanceBilingualResponse(response) ==
    IF ~HasLatin(response) /\ HasArabic(response)
    THEN response \o EnglishSummarySuffix
    ELSE response

adjustTone(response) ==
    ReplaceAll(ReplaceAll(ReplaceAll(response, CasualMarhaba, FormalMarhaba),
                          CasualOki, FormalOki),
               CasualTamam, FormalTamam)

reviewAndFixCode(response) ==
    IF ~containsCode(response) THEN response
    ELSE response \o CodeReviewSuffix

applySecurityTemplate(response) == response \o SecurityReminderSuffix

--------------------------------------------------------------------------
(* Request metadata.  A caller passes an object, with or without the       *)
(* responseTime property, or passes nothing (undefined).  The properties   *)
(* message and agent are only handed to getCachedResponse and              *)
(* applyStructuredTemplate, which ignore them, and are left out.           *)

NoMetadata == [present |-> FALSE]

EmptyMetadata == [present |-> TRUE]

Measured(ms) == [present |-> TRUE, responseTime |-> ms]

\* metadata.responseTime || 0
ResponseTimeOrZero(metadata) ==
    IF "responseTime" \in DOMAIN metadata THEN metadata.responseTime ELSE 0

--------------------------------------------------------------------------
(* checkCommitment                                                         *)

\* reading metadata.responseTime of undefined raises a TypeError, which
\* checkCommitment does not catch
checkCommitmentThrows(commitmentType, metadata) ==
    commitmentType = "responseTime" /\ ~metadata.present

commitmentScore(commitmentType, agent, message, response, metadata) ==
    CASE commitmentType = "accuracy" -> validateAccuracy(response, message, agent)
      [] commitmentType = "responseTime" -> Num(ResponseTimeOrZero(metadata))
      [] commitmentType = "zatcaCompliance" -> validateZatcaCompliance(response, message)
      [] commitmentType = "arabicQuality" -> validateArabicQuality(response)
      [] commitmentType = "organizationQuality" -> validateOrganization(response, message)
      [] commitmentType = "bilingualSupport" -> validateBilingualSupport(response, message)
      [] commitmentType = "professionalTone" -> validateProfessionalTone(response)
      [] commitmentType = "codeQuality" -> validateCodeQuality(response, message)
      [] commitmentType = "securityCompliance" -> validateSecurityCompliance(response)
      [] commitmentType = "multiLanguageSupport" -> validateMultiLanguageSupport(response, message)
      [] OTHER -> Num(0)

\* the pass condition with the latency rule compared like every other
commitmentPassedUniform(commitmentType, score, target) ==
    GreaterEq(score, target)

\* the pass condition of one commitment type
commitmentPassed(commitmentType, score, target) ==
    CASE commitmentType = "responseTime" -> LessEq(score, target)
      [] commitmentType \in {"accuracy", "zatcaCompliance", "arabicQuality",
                             "organizationQuality", "bilingualSupport",
                             "professionalTone", "codeQuality",
                             "securityCompliance", "multiLanguageSupport"}
            -> GreaterEq(score, target)
      [] OTHER -> FALSE

\* the result object once the score is known
resultOf(commitmentType, rules, score) ==
    [commitmentType |-> commitmentType,
     passed |-> commitmentPassed(commitmentType, score, rules.target),
     score |-> score,
     target |-> rules.target,
     enforcement |-> rules.enforcement]

checkCommitment(commitmentType, rules, agent, message, response, metadata) ==
    resultOf(commitmentType, rules,
             commitmentScore(commitmentType, agent, message, response, metadata))

--------------------------------------------------------------------------
(* applyEnforcement                                                        *)

\* the fallback actions whose case reads a property of metadata
ReadsMetadata(fallback) == fallback \in {"cached_response", "structured_template"}

\* the case of the switch raises inside the try block
enforcementThrows(rules, metadata) ==
    ReadsMetadata(rules.fallback) /\ ~metadata.present

\* enforcement.adjustedResponse after the switch
adjustedBy(commitmentType, rules, violationResult, originalResponse, metadata) ==
    CASE rules.fallback = "human_review" ->
             triggerHumanReview(originalResponse, violationResult)
      [] rules.fallback = "cached_response" -> getCachedResponse(Undefined, Undefined)
      [] rules.fallback = "compliance_template" ->
             applyComplianceTemplate(originalResponse, commitmentType)
      [] rules.fallback = "language_correction" -> correctLanguage(originalResponse)
      [] rules.fallback = "structured_template" ->
             applyStructuredTemplate(originalResponse, Undefined)
      [] rules.fallback = "translation_service" ->
             enhanceBilingualResponse(originalResponse)
      [] rules.fallback = "tone_adjustment" -> adjustTone(originalResponse)
      [] rules.fallback = "code_review" -> reviewAndFixCode(originalResponse)
      [] rules.fallback = "security_template" -> applySecurityTemplate(originalResponse)
      [] OTHER -> originalResponse

\* enforcement.success after the switch
succeededBy(rules, adjusted) ==
    CASE rules.fallback = "cached_response" -> adjusted # Null /\ adjusted # <<>>
      [] rules.fallback \in {"human_review", "compliance_template",
                             "language_correction", "structured_template",
                             "translation_service", "tone_adjustment",
                             "code_review", "security_template"} -> TRUE
      [] OTHER -> FALSE

\* the enforcement object when the switch completed with adjusted as
\* enforcement.adjustedResponse
enforcementOf(rules, adjusted) ==
    [success |-> succeededBy(rules, adjusted),
     action |-> rules.fallback,
     adjustedResponse |-> adjusted,
     enforcementType |-> rules.enforcement]

\* applyEnforcement without the initial adjustedResponse: originalResponse
applyEnforcementLosingOutput(commitmentType, rules, violationResult, originalResponse, metadata) ==
    IF enforcementThrows(rules, metadata)
    THEN [success |-> FALSE, action |-> rules.fallback,
          adjustedResponse |-> Undefined,
          enforcementType |-> rules.enforcement]
    ELSE enforcementOf(rules, adjustedBy(commitmentType, rules, violationResult,
                                         originalResponse, metadata))

\* lines 386-466: the try block completes, or the catch block logs and
\* leaves enforcement as it was first built
applyEnforcement(commitmentType, rules, violationResult, originalResponse, metadata) ==
    IF enforcementThrows(rules, metadata)
    THEN [success |-> FALSE, action |-> rules.fallback,
          adjustedResponse |-> originalResponse,
          enforcementType |-> rules.enforcement]
    ELSE enforcementOf(rules, adjustedBy(commitmentType, rules, violationResult,
                                         originalResponse, metadata))

\* what applyEnforcement and the remediation it calls write to
\* commitmentLogger
enforcementLog(commitmentType, rules, violationResult, metadata) ==
    IF enforcementThrows(rules, metadata)
    THEN << [level |-> "error", message |-> "Enforcement action failed",
             commitmentType |-> commitmentType, action |-> rules.fallback] >>
    ELSE IF rules.fallback = "human_review"
         THEN << [level |-> "warn", message |-> "Human review triggered",
                  commitmentType |-> violationResult.commitmentType,
                  action |-> rules.fallback] >>
         ELSE <<>>


--------------------------------------------------------------------------
(* enforcePreResponse                                                      *)

\* enforcementResults as first built
InitialResults(response) ==
    [passed |-> TRUE, violations |-> <<>>, adjustments |-> <<>>,
     finalResponse |-> response]

\* lines 290-307: what a failed result and its adjustment do to acc, which
\* holds enforcementResults, every value applyEnforcement returned, what
\* was logged, and whether checkCommitment raised
afterEnforcement(acc, result, adjustment, log) ==
    [acc EXCEPT
        !.results =
            IF adjustment.success
            THEN [@ EXCEPT !.passed = FALSE,
                           !.violations = Append(@, result),
                           !.adjustments = Append(@, adjustment),
                           !.finalResponse = adjustment.adjustedResponse]
            ELSE [@ EXCEPT !.passed = FALSE,
                           !.violations = Append(@, result)],
        !.applied = Append(@, adjustment),
        !.log = @ \o log]

\* afterCheck without the test of result.passed: every rule is enforced
afterCheckAlways(acc, rules, result, response, metadata) ==
    afterEnforcement(acc, result,
        applyEnforcement(rules.type, rules, result, response, metadata),
        enforcementLog(rules.type, rules, result, metadata))

\* lines 281-307: one iteration of the loop, given the result of
\* checkCommitment; the enforcement is applied to response, the argument
\* of enforcePreResponse
afterCheck(acc, rules, result, response, metadata) ==
    IF result.passed THEN acc
    ELSE afterEnforcement(acc, result,
             applyEnforcement(rules.type, rules, result, response, metadata),
             enforcementLog(rules.type, rules, result, metadata))

\* the loop with every rule scored against the output as adjusted so far
RECURSIVE checkEachCommitmentSerial(_, _, _, _, _, _, _)
checkEachCommitmentSerial(entries, i, agent, message, response, metadata, acc) ==
    IF i > Len(entries) THEN acc
    ELSE IF checkCommitmentThrows(entries[i].type, metadata)
         THEN [acc EXCEPT !.threw = TRUE]
         ELSE checkEachCommitmentSerial(entries, i + 1, agent, message,
                  response, metadata,
                  afterCheck(acc, entries[i],
                             checkCommitment(entries[i].type, entries[i], agent,
                                             message, acc.results.finalResponse,
                                             metadata),
                             response, metadata))

\* the loop over Object.entries(commitments), from entry i on; it is
\* abandoned when checkCommitment raises
RECURSIVE checkEachCommitment(_, _, _, _, _, _, _)
checkEachCommitment(entries, i, agent, message, response, metadata, acc) ==
    IF i > Len(entries) THEN acc
    ELSE IF checkCommitmentThrows(entries[i].type, metadata)
         THEN [acc EXCEPT !.threw = TRUE]
         ELSE checkEachCommitment(entries, i + 1, agent, message, response,
                  metadata,
                  afterCheck(acc, entries[i],
                             checkCommitment(entries[i].type, entries[i], agent,
                                             message, response, metadata),
                             response, metadata))

\* the value enforcePreResponse resolves to, or threw = TRUE when the
\* promise is rejected; known tells whether the early return was taken
enforcePreResponse(agent, message, response, metadata) ==
    IF ~HasCommitments(agent)
    THEN [threw |-> FALSE, known |-> FALSE,
          results |-> [passed |-> TRUE, response |-> response],
          applied |-> <<>>, log |-> <<>>]
    ELSE checkEachCommitment(AGENT_COMMITMENTS(agent), 1, agent, message,
             response, metadata,
             [threw |-> FALSE, known |-> TRUE,
              results |-> InitialResults(response),
              applied |-> <<>>, log |-> <<>>])

--------------------------------------------------------------------------
(* The enforcer and its callers as a state machine.                        *)

VARIABLES
    violations,          \* this.violations: Map from key to enforcementResults
    enforcementHistory,  \* this.enforcementHistory
    activeMonitoring,    \* this.activeMonitoring
    clock,               \* Date.now(), in milliseconds since the process started
    call,                \* the arguments of the latest enforcePreResponse call
    status,              \* "idle", "pending", "returned" or "threw"
    report,              \* what the latest call returned
    applied,             \* every value applyEnforcement returned in that call
    logged,              \* what that call wrote to commitmentLogger
    stats,               \* what the latest getEnforcementStats returned
    served,              \* number of enforcePreResponse calls so far
    ticks,               \* number of clock advances so far
    running,             \* the calls suspended at an await, by slot
    backend,             \* which database service class db is (line 1338)
    otp_verifications,   \* the rows of the table otp_verifications
    otpCalls,            \* the createOTP and verifyOTP calls in flight, by slot
    otpReturned,         \* what the finished OTP calls returned, in order
    otpStarted,          \* number of OTP calls made so far
    connectionType,      \* DatabaseManager.connectionType
    isConnected,         \* DatabaseManager.isConnected
    inMemoryStorage,     \* DatabaseManager.inMemoryStorage
    memoryStore,         \* DatabaseManager.memoryStore has been assigned
    importing,           \* initInMemory is suspended at its import
    dbReturned,          \* how the finished DatabaseManager calls settled
    dbStarted,           \* number of DatabaseManager calls made so far
    openai,              \* a generation client is configured (line 34)
    chat_messages,       \* the rows of the table chat_messages
    chatRequest,         \* the latest POST /api/chat request
    chatAnswer,          \* the answer sent to it
    chatServed           \* number of requests answered so far

\* the state of CommitmentEnforcer and of its callers
enforcerVars == <<violations, enforcementHistory, activeMonitoring, clock, call,
                  status, report, applied, logged, stats, served, ticks, running>>

\* the state of the OTP methods of the database service
otpVars == <<backend, otp_verifications, otpCalls, otpReturned, otpStarted>>

\* the state outside CommitmentEnforcer
\* the state of DatabaseManager and of its callers
dbVars == <<connectionType, isConnected, inMemoryStorage, memoryStore,
            importing, dbReturned, dbStarted>>

\* the state of the chat endpoint of the API server
chatVars == <<openai, chat_messages, chatRequest, chatAnswer, chatServed>>

storeVars == <<otpVars, dbVars, chatVars>>

vars == <<enforcerVars, storeVars>>

Call(agent, message, response, metadata) ==
    [agent |-> agent, message |-> message, response |-> response,
     metadata |-> metadata]

NoCall == Call(<<>>, <<>>, <<>>, NoMetadata)

NoReport == [none |-> TRUE]

NoStats == [none |-> TRUE]

\* the key `${agent}-${Date.now()}`: the text after the last '-' is the
\* time, so two keys are equal exactly when agent and time are
LedgerKey(agent, now) == <<agent, now>>

\* Map.prototype.set
MapSet(map, key, value) ==
    [k \in DOMAIN map \cup {key} |-> IF k = key THEN value ELSE map[k]]

EmptyMap == [k \in {} |-> NoReport]

\* logEnforcementResult recording every result, passed or not
logEnforcementResultAlways(ledger, agent, result, now) ==
    MapSet(ledger, LedgerKey(agent, now), result)

\* the ledger after logEnforcementResult(agent, result) at time now
logEnforcementResult(ledger, agent, result, now) ==
    IF ~result.passed
    THEN MapSet(ledger, LedgerKey(agent, now), result)
    ELSE ledger

\* the info event logEnforcementResult writes
completionLog(agent, result, now) ==
    [level |-> "info", message |-> "Commitment enforcement completed",
     agent |-> agent, passed |-> result.passed,
     violations |-> Len(result.violations),
     adjustments |-> Len(result.adjustments),
     timestamp |-> now]


--------------------------------------------------------------------------
(* Sample texts the requests are built from.                               *)

\* 'VAT': a ZATCA keyword in upper case
TextVat ==
    <<86, 65, 84>>

\* a line feed and two spaces: white space, a line break, an indented line
TextIndent ==
    <<10, 32, 32>>

\* 'python': a programming language name
TextPython ==
    <<112, 121, 116, 104, 111, 110>>

\* 'eval(': on the security denylist
TextEval ==
    <<101, 118, 97, 108, 40>>

\* 'function': a code marker
TextFunction ==
    <<102, 117, 110, 99, 116, 105, 111, 110>>

\* 'marhaba': a casual indicator that adjustTone replaces
TextMarhaba ==
    <<1605, 1585, 1581, 1576, 1575>>

\* a structured, bilingual reply with six professional indicators
TextFormalReply ==
    <<45, 32, 49, 46, 32, 110, 111, 116, 101, 58, 32, 1610, 1605, 1603,
    1606, 1606, 1610, 32, 1571, 1587, 1578, 1591, 1610, 1593, 32,
    1610, 1587, 1593, 1583, 1606, 1610, 32, 1571, 1606, 1589, 1581,
    32, 1571, 1602, 1578, 1585, 1581, 32, 1610, 1580, 1576, 10>>

\* 'Invoice VAT': the Latin trigger, capitalised
MsgInvoice ==
    <<73, 110, 118, 111, 105, 99, 101, 32, 86, 65, 84>>

\* 'fatura': the Arabic trigger
MsgFatura ==
    <<1601, 1575, 1578, 1608, 1585, 1577>>

\* 'hello': no trigger, no language
MsgHello ==
    <<104, 101, 108, 108, 111>>

\* 'python eval': names a programming language
MsgPython ==
    <<112, 121, 116, 104, 111, 110, 32, 101, 118, 97, 108>>

\* 'marhaba hello': Arabic and Latin letters
MsgBilingual ==
    <<1605, 1585, 1581, 1576, 1575, 32, 104, 101, 108, 108, 111>>

\* 'nonexistent-profile': not a property of AGENT_COMMITMENTS
UnknownProfile ==
    <<110, 111, 110, 101, 120, 105, 115, 116, 101, 110, 116, 45, 112, 114,
    111, 102, 105, 108, 101>>

\* longest response, in fragments
MaxFragments == 2

\* enforcePreResponse calls a behaviour of the service makes at most
MaxServed == 2

\* clock advances a behaviour makes at most
MaxTicks == 2

\* how many calls can be suspended at once
MaxInFlight == 2

Fragments ==
    {TextVat, TextIndent, TextPython, TextEval, TextFunction, TextMarhaba,
     TextFormalReply}

\* the concatenations of at most n fragments
RECURSIVE Concatenations(_)
Concatenations(n) ==
    IF n = 0 THEN {<<>>}
    ELSE LET shorter == Concatenations(n - 1)
         IN  shorter \cup {s \o f : s \in shorter, f \in Fragments}

Responses == Concatenations(MaxFragments)

Messages == {<<>>, MsgInvoice, MsgFatura, MsgHello, MsgPython, MsgBilingual}

Agents == {Accountant, Secretary, Programmer, ConstructorKey, UnknownProfile}

Metadatas == {NoMetadata, EmptyMetadata, Measured(1500), Measured(2000), Measured(2500)}

\* the calls a single evaluation is checked on
AllCalls ==
    {Call(a, m, r, md) : a \in Agents, m \in Messages, r \in Responses,
                         md \in Metadatas}

\* the calls the long-running service receives
ServiceCalls ==
    {Call(Accountant, MsgInvoice, TextVat, Measured(2500)),
     Call(Accountant, MsgHello, TextMarhaba, Measured(1500)),
     Call(Secretary, MsgBilingual, TextMarhaba, EmptyMetadata),
     Call(Programmer, MsgPython, TextFunction \o TextEval, EmptyMetadata),
     Call(Programmer, MsgHello, TextVat, NoMetadata),
     Call(UnknownProfile, MsgHello, TextVat, EmptyMetadata)}

HourMs == 60 * 60 * 1000

DayMs == 24 * 60 * 60 * 1000

\* how far one advance moves the clock: an hour or 25 hours
ClockSteps == {HourMs, 25 * HourMs}

--------------------------------------------------------------------------
(* getEnforcementStats                                                     *)

\* new Date(v.timestamp).getTime(): NaN when v has no timestamp property
TimestampOf(v) ==
    IF "timestamp" \in DOMAIN v THEN Num(v.timestamp) ELSE NaN

\* a - b of JavaScript numbers
Minus(a, b) ==
    IF IsNaN(a) \/ IsNaN(b) THEN NaN
    ELSE Ratio(a.n * b.d - b.n * a.d, a.d * b.d)

getEnforcementStats(ledger, history, monitoring, now) ==
    LET recentViolations ==
            {k \in DOMAIN ledger :
                Less(Minus(Num(now), TimestampOf(ledger[k])), Num(DayMs))}
    IN  [totalViolations |-> Cardinality(DOMAIN ledger),
         recentViolations |-> Cardinality(recentViolations),
         enforcementRate |-> Len(history),
         activeMonitoring |-> monitoring]

--------------------------------------------------------------------------
(* Actions.                                                                *)

\* constructor of CommitmentEnforcer; no call has been made
\* a slot without a call
Idle == [busy |-> FALSE]

\* a call suspended at the await of line 281, about to check its entry
\* number next, with acc as built so far; since is the time the call was
\* made, which the code does not keep
Suspended(c, next, acc, since) ==
    [busy |-> TRUE, call |-> c, next |-> next, acc |-> acc, since |-> since]

Slots == 1..MaxInFlight

NoneRunning == [s \in Slots |-> Idle]

--------------------------------------------------------------------------
(* The OTP methods of DatabaseService and DatabaseServicePg.               *)

\* createOTP and verifyOTP calls a behaviour makes at most
MaxOtpCalls == 4

\* the (identifier, otpCode, otpType) arguments the callers pass
OtpArguments ==
    {<<"+966500000001", "111111", "login">>,
     <<"+966500000001", "222222", "login">>,
     <<"+966500000002", "111111", "login">>}

\* the expiry the caller of createOTP passes: one hour from now
OtpExpiry(now) == now + HourMs

\* createOTP, first statement: every row of the identifier and type is
\* marked verified
invalidateOtps(rows, identifier, otpType) ==
    [i \in 1..Len(rows) |->
        IF rows[i].identifier = identifier /\ rows[i].otp_type = otpType
        THEN [rows[i] EXCEPT !.is_verified = TRUE]
        ELSE rows[i]]

\* createOTP, second statement: a new row, unverified by the column default
insertOtp(rows, identifier, otpCode, otpType, expiresAt) ==
    Append(rows, [id |-> Len(rows) + 1, identifier |-> identifier,
                  otp_code |-> otpCode, otp_type |-> otpType,
                  is_verified |-> FALSE, expires_at |-> expiresAt])

\* verifyOTP, first statement: the ids of the rows the filters match
matchingOtps(rows, identifier, otpCode, otpType, now) ==
    {i \in 1..Len(rows) :
        /\ rows[i].identifier = identifier
        /\ rows[i].otp_code = otpCode
        /\ rows[i].otp_type = otpType
        /\ rows[i].is_verified = FALSE
        /\ rows[i].expires_at >= now}

\* the ids the first statement of verifyOTP may hand to the caller:
\* .single() gives a row only when exactly one matches, LIMIT 1 gives any
\* of the matching rows
selectOtp(service, rows, identifier, otpCode, otpType, now) ==
    LET matches == matchingOtps(rows, identifier, otpCode, otpType, now)
    IN  IF service = "supabase" /\ Cardinality(matches) # 1 THEN {} ELSE matches

\* verifyOTP, second statement: the row of the id is marked verified
markVerified(rows, id) ==
    [i \in 1..Len(rows) |->
        IF rows[i].id = id THEN [rows[i] EXCEPT !.is_verified = TRUE]
        ELSE rows[i]]

\* a slot without an OTP call
OtpIdle == [op |-> "none"]

\* a createOTP or verifyOTP call suspended between its two statements;
\* data is the row verifyOTP selected, expires_at the argument of createOTP
OtpSuspended(op, identifier, otpCode, otpType, expiresAt, data) ==
    [op |-> op, identifier |-> identifier, otp_code |-> otpCode,
     otp_type |-> otpType, expires_at |-> expiresAt, data |-> data]

\* what a finished call returned: { success, otp } or { success, error }
OtpResult(op, identifier, otpCode, otpType, success, otp) ==
    [op |-> op, identifier |-> identifier, otp_code |-> otpCode,
     otp_type |-> otpType, success |-> success, otp |-> otp]

\* no OTP method is in use
OtpUnused ==
    /\ backend = "none"
    /\ otp_verifications = <<>>
    /\ otpCalls = [s \in Slots |-> OtpIdle]
    /\ otpReturned = <<>>
    /\ otpStarted = 0

--------------------------------------------------------------------------
(* DatabaseManager without Supabase or Postgres configuration.             *)

\* createOrganization and getOrganization calls a behaviour makes at most
MaxDbCalls == 3

\* the orgData arguments the callers pass; two carry the same id
Organizations ==
    {[id |-> "org-1", name |-> "Dogan"],
     [id |-> "org-1", name |-> "Dogan AI"],
     [id |-> "org-2", name |-> "Factori"]}

OrgIds == {orgData.id : orgData \in Organizations}

\* this.inMemoryStorage was never assigned
NoStorage == [defined |-> FALSE]

\* a key of a Map without a value
Absent == [present |-> FALSE]

\* a key of a Map with its value
Present(value) == [present |-> TRUE, value |-> value]

\* lines 1456-1463: the basic storage, with organizations an empty Map
basicStorage ==
    [defined |-> TRUE, organizations |-> [orgId \in OrgIds |-> Absent]]

\* the promise of an async method fulfilled with a value
Fulfilled(value) == [settled |-> "fulfilled", defined |-> TRUE, value |-> value]

\* the promise of an async method fulfilled with undefined
FulfilledUndefined == [settled |-> "fulfilled", defined |-> FALSE]

\* the promise of an async method rejected with a TypeError
RejectedTypeError == [settled |-> "rejected", error |-> "TypeError"]

\* query: the rows it returns without a Postgres pool; both the supabase
\* branch and executeInMemoryQuery return an empty array
query(type) == <<>>

\* result[0] of the rows a query returned
firstRow(rows) ==
    IF Len(rows) = 0 THEN FulfilledUndefined ELSE Fulfilled(rows[1])

\* createOrganization: the storage it leaves and how its promise settles
createOrganization(type, storage, orgData) ==
    IF type = "in-memory"
    THEN IF ~storage.defined
         THEN [storage |-> storage, settles |-> RejectedTypeError]
         ELSE [storage |-> [storage EXCEPT
                               !.organizations[orgData.id] = Present(orgData)],
               settles |-> Fulfilled(orgData)]
    ELSE [storage |-> storage, settles |-> firstRow(query(type))]

\* getOrganization: how its promise settles
getOrganization(type, storage, orgId) ==
    IF type = "in-memory"
    THEN IF ~storage.defined
         THEN RejectedTypeError
         ELSE IF storage.organizations[orgId].present
              THEN Fulfilled(storage.organizations[orgId].value)
              ELSE FulfilledUndefined
    ELSE firstRow(query(type))

\* a finished call of DatabaseManager: arg is the orgData passed to
\* createOrganization
DbCall(op, orgId, arg, settles) ==
    [op |-> op, orgId |-> orgId, arg |-> arg, settles |-> settles]

\* DatabaseManager is not in use
DbUnused ==
    /\ connectionType = "none"
    /\ isConnected = FALSE
    /\ inMemoryStorage = NoStorage
    /\ memoryStore = FALSE
    /\ importing = FALSE
    /\ dbReturned = <<>>
    /\ dbStarted = 0

--------------------------------------------------------------------------
(* POST /api/chat of the API server.                                       *)

\* requests a behaviour makes at most
MaxChatRequests == 2

\* a field of req.body is Absent or Present; a message may be the empty
\* string; agent and userEmail have defaults
ChatBodies ==
    [message : {Absent, Present(<<>>), Present(MsgHello)},
     agent : {Absent, Present(Secretary)},
     userEmail : {Absent, Present("user@example.com")}]

\* what the generation service does with a request: it raises, or it
\* answers with the content of the first choice, which may be missing or
\* the empty string
ChatCompletions ==
    [throws : {TRUE}, content : {Absent}]
    \cup [throws : {FALSE}, content : {Absent, Present(<<>>), Present(TextVat)}]

\* the completion of a request when no generation service is configured
NoCompletion == [throws |-> FALSE, content |-> Absent]

\* lines 94-112: the reply text; content is that of the first choice
chatReply(configured, agent, content) ==
    LET opening ==
            <<1605, 1585, 1581, 1576, 1575, 1611, 33, 32, 1571, 1606, 1575,
              32>>
        closing ==
            <<46, 32, 1604, 1604, 1571, 1587, 1601, 1548, 32, 1604, 1575,
              32, 1610, 1605, 1603, 1606, 1606, 1610, 32, 1575, 1604, 1608,
              1589, 1608, 1604, 32, 1573, 1604, 1609, 32, 1582, 1583, 1605,
              1577, 32, 1575, 1604, 1584, 1603, 1575, 1569, 32, 1575, 1604,
              1575, 1589, 1591, 1606, 1575, 1593, 1610, 32, 1581, 1575,
              1604, 1610, 1575, 1611, 46, 32, 1610, 1585, 1580, 1609, 32,
              1575, 1604, 1578, 1571, 1603, 1583, 32, 1605, 1606, 32, 1573,
              1593, 1583, 1575, 1583, 32, 1605, 1601, 1578, 1575, 1581, 32,
              79, 112, 101, 110, 65, 73, 32, 65, 80, 73, 32, 1576, 1588,
              1603, 1604, 32, 1589, 1581, 1610, 1581, 46>>
        apology ==
            <<1593, 1584, 1585, 1575, 1611, 1548, 32, 1604, 1605, 32, 1571,
              1578, 1605, 1603, 1606, 32, 1605, 1606, 32, 1605, 1593, 1575,
              1604, 1580, 1577, 32, 1591, 1604, 1576, 1603, 46>>
    IN  IF ~configured
        THEN opening \o agent \o closing
        ELSE IF content.present /\ content.value # <<>>
             THEN content.value
             ELSE apology

\* the handler that answers 500 when the save fails
postChatFailingOnSave(body, configured, completion, saveFails, now) ==
    LET agent == IF body.agent.present THEN body.agent.value ELSE Accountant
        userEmail == IF body.userEmail.present THEN body.userEmail.value
                     ELSE "anonymous@doganai.com"
        response == chatReply(configured, agent, completion.content)
    IN  IF ~body.message.present \/ body.message.value = <<>>
        THEN [status |-> 400, json |-> [error |-> "Message is required"],
              saves |-> <<>>]
        ELSE IF (configured /\ completion.throws) \/ saveFails
        THEN [status |-> 500, json |-> [error |-> "Internal server error"],
              saves |-> <<>>]
        ELSE [status |-> 200,
              json |-> [response |-> response, agent |-> agent,
                        timestamp |-> now],
              saves |-> <<[user_email |-> userEmail,
                           message |-> body.message.value,
                           response |-> response, agent_type |-> agent]>>]

\* lines 85-136: the answer of the handler and the rows it saves;
\* completion is what the generation service does, saveFails whether
\* saveChatMessage is rejected
postChat(body, configured, completion, saveFails, now) ==
    LET agent == IF body.agent.present THEN body.agent.value ELSE Accountant
        userEmail == IF body.userEmail.present THEN body.userEmail.value
                     ELSE "anonymous@doganai.com"
        response == chatReply(configured, agent, completion.content)
        errorMessage ==
            <<1581, 1583, 1579, 32, 1582, 1591, 1571, 32, 1571, 1579, 1606,
              1575, 1569, 32, 1605, 1593, 1575, 1604, 1580, 1577, 32, 1591,
              1604, 1576, 1603>>
    IN  IF ~body.message.present \/ body.message.value = <<>>
        THEN [status |-> 400, json |-> [error |-> "Message is required"],
              saves |-> <<>>]
        ELSE IF configured /\ completion.throws
        THEN [status |-> 500,
              json |-> [error |-> "Internal server error",
                        message |-> errorMessage],
              saves |-> <<>>]
        ELSE [status |-> 200,
              json |-> [response |-> response, agent |-> agent,
                        timestamp |-> now],
              saves |-> IF saveFails THEN <<>>
                        ELSE <<[user_email |-> userEmail,
                                message |-> body.message.value,
                                response |-> response, agent_type |-> agent]>>]

\* no request has been made
NoRequest == [made |-> FALSE]

\* no answer has been sent
NoAnswer == [status |-> 0]

\* the chat endpoint is not in use
ChatUnused ==
    /\ openai = FALSE
    /\ chat_messages = <<>>
    /\ chatRequest = NoRequest
    /\ chatAnswer = NoAnswer
    /\ chatServed = 0

\* nothing outside CommitmentEnforcer is in use
StoresUnused == OtpUnused /\ DbUnused /\ ChatUnused

Init ==
    /\ violations = EmptyMap
    /\ enforcementHistory = <<>>
    /\ activeMonitoring = TRUE
    /\ clock = 0
    /\ call = NoCall
    /\ status = "idle"
    /\ report = NoReport
    /\ applied = <<>>
    /\ logged = <<>>
    /\ stats = NoStats
    /\ served = 0
    /\ ticks = 0
    /\ running = NoneRunning
    /\ StoresUnused

\* lines 310-313 and the rejection: what a call that computed out leaves
\* behind.  logEnforcementResult runs only when the loop completed
Completes(c, out) ==
    LET logs == out.known /\ ~out.threw
    IN  /\ call' = c
        /\ served' = served + 1
        /\ status' = IF out.threw THEN "threw" ELSE "returned"
        /\ report' = IF out.threw THEN NoReport ELSE out.results
        /\ applied' = out.applied
        /\ logged' = IF logs
                     THEN Append(out.log, completionLog(c.agent, out.results, clock))
                     ELSE out.log
        /\ violations' = IF logs
                         THEN logEnforcementResult(violations, c.agent,
                                                   out.results, clock)
                         ELSE violations
        /\ UNCHANGED <<enforcementHistory, activeMonitoring, clock, stats, ticks,
                       storeVars>>

\* Evaluate with the latency read from the clock instead of the metadata
EvaluateByClock(c) ==
    \E out \in {enforcePreResponse(c.agent, c.message, c.response,
                                    Measured(clock))} :
        Completes(c, out) /\ UNCHANGED running

\* one call of enforcePreResponse, from entry to return or rejection
Evaluate(c) ==
    \E out \in {enforcePreResponse(c.agent, c.message, c.response, c.metadata)} :
        Completes(c, out) /\ UNCHANGED running

\* a caller of the service makes a call
Serve ==
    /\ served < MaxServed
    /\ \E c \in ServiceCalls : Evaluate(c)

\* time passes
Tick ==
    /\ ticks < MaxTicks
    /\ \E d \in ClockSteps : clock' = clock + d
    /\ ticks' = ticks + 1
    /\ UNCHANGED <<violations, enforcementHistory, activeMonitoring, call,
                   status, report, applied, logged, stats, served, running,
                   storeVars>>

\* operational tooling reads the statistics
GetStats ==
    /\ stats' = getEnforcementStats(violations, enforcementHistory,
                                    activeMonitoring, clock)
    /\ UNCHANGED <<violations, enforcementHistory, activeMonitoring, clock,
                   call, status, report, applied, logged, served, ticks,
                   running, storeVars>>

Next == Serve \/ Tick \/ GetStats

Spec == Init /\ [][Next]_vars

\* a single evaluation, of any call of AllCalls, on a fresh enforcer
InitOne ==
    /\ violations = EmptyMap
    /\ enforcementHistory = <<>>
    /\ activeMonitoring = TRUE
    /\ clock = 0
    /\ call \in AllCalls
    /\ status = "pending"
    /\ report = NoReport
    /\ applied = <<>>
    /\ logged = <<>>
    /\ stats = NoStats
    /\ served = 0
    /\ ticks = 0
    /\ running = NoneRunning
    /\ StoresUnused

EvaluatePending ==
    /\ status = "pending"
    /\ Evaluate(call)

NextOne == EvaluatePending

SpecOne == InitOne /\ [][NextOne]_vars

\* the calls of the interleaved service; the third is rejected
InterleavedCalls ==
    {Call(Accountant, MsgInvoice, TextVat, Measured(2500)),
     Call(Secretary, MsgBilingual, TextMarhaba, EmptyMetadata),
     Call(Accountant, MsgHello, TextMarhaba, NoMetadata),
     Call(Programmer, MsgHello, TextVat, EmptyMetadata),
     Call(UnknownProfile, MsgHello, TextVat, EmptyMetadata)}

\* lines 268-277: acc when the loop is entered, or at the early return
atEntry(agent, response) ==
    IF ~HasCommitments(agent)
    THEN [threw |-> FALSE, known |-> FALSE,
          results |-> [passed |-> TRUE, response |-> response],
          applied |-> <<>>, log |-> <<>>]
    ELSE [threw |-> FALSE, known |-> TRUE,
          results |-> InitialResults(response),
          applied |-> <<>>, log |-> <<>>]

\* the entries the call in slot s iterates over
EntriesOf(s) == AGENT_COMMITMENTS(running[s].call.agent)

\* a caller makes a call while others are suspended; it runs up to its
\* first await
Begin(s, c) ==
    /\ ~running[s].busy
    /\ \A r \in Slots : r < s => running[r].busy
    /\ served + Cardinality({r \in Slots : running[r].busy}) < MaxServed
    /\ running' = [running EXCEPT
                      ![s] = Suspended(c, 1, atEntry(c.agent, c.response), clock)]
    /\ UNCHANGED <<violations, enforcementHistory, activeMonitoring, clock,
                   call, status, report, applied, logged, stats, served, ticks,
                   storeVars>>

\* lines 279-308, one iteration: the call in slot s is resumed, checks its
\* next entry, remedies a failure, and is suspended again
CheckRule(s) ==
    /\ running[s].busy
    /\ running[s].next <= Len(EntriesOf(s))
    /\ ~checkCommitmentThrows(EntriesOf(s)[running[s].next].type,
                              running[s].call.metadata)
    /\ \E c \in {running[s].call} : \E rules \in {EntriesOf(s)[running[s].next]} :
           running' = [running EXCEPT
               ![s].next = @ + 1,
               ![s].acc = afterCheck(@, rules,
                              checkCommitment(rules.type, rules, c.agent,
                                              c.message, c.response, c.metadata),
                              c.response, c.metadata)]
    /\ UNCHANGED <<violations, enforcementHistory, activeMonitoring, clock,
                   call, status, report, applied, logged, stats, served, ticks,
                   storeVars>>

\* checkCommitment raises for the next entry: the call in slot s is
\* rejected
Reject(s) ==
    /\ running[s].busy
    /\ running[s].next <= Len(EntriesOf(s))
    /\ checkCommitmentThrows(EntriesOf(s)[running[s].next].type,
                             running[s].call.metadata)
    /\ Completes(running[s].call, [running[s].acc EXCEPT !.threw = TRUE])
    /\ running' = [running EXCEPT ![s] = Idle]

\* lines 310-313: the loop of the call in slot s is over (or the early
\* return was taken); it writes the ledger and returns
Return(s) ==
    /\ running[s].busy
    /\ running[s].next > Len(EntriesOf(s))
    /\ Completes(running[s].call, running[s].acc)
    /\ running' = [running EXCEPT ![s] = Idle]

NextInterleaved ==
    \/ \E s \in Slots : \E c \in InterleavedCalls : Begin(s, c)
    \/ \E s \in Slots : CheckRule(s)
    \/ \E s \in Slots : Reject(s)
    \/ \E s \in Slots : Return(s)
    \/ Tick
    \/ GetStats

\* the service with calls suspended at their awaits while others run
SpecInterleaved == Init /\ [][NextInterleaved]_vars

--------------------------------------------------------------------------
(* createOTP and verifyOTP calls, interleaved at their awaits.             *)

\* the enforcer as constructed, with no call made
NoEnforcerCalls ==
    /\ violations = EmptyMap
    /\ enforcementHistory = <<>>
    /\ activeMonitoring = TRUE
    /\ clock = 0
    /\ call = NoCall
    /\ status = "idle"
    /\ report = NoReport
    /\ applied = <<>>
    /\ logged = <<>>
    /\ stats = NoStats
    /\ served = 0
    /\ ticks = 0
    /\ running = NoneRunning

\* line 1338: db is a DatabaseServicePg when a pool was configured, a
\* DatabaseService otherwise; the table is empty and no call has been made
InitOtp ==
    /\ NoEnforcerCalls
    /\ backend \in {"supabase", "pg"}
    /\ otp_verifications = <<>>
    /\ otpCalls = [s \in Slots |-> OtpIdle]
    /\ otpReturned = <<>>
    /\ otpStarted = 0
    /\ DbUnused
    /\ ChatUnused

\* a new OTP call may take slot s
OtpSlotFree(s) ==
    /\ otpStarted < MaxOtpCalls
    /\ otpCalls[s] = OtpIdle
    /\ \A r \in Slots : r < s => otpCalls[r] # OtpIdle

\* createOTP up to its second await: the rows of the identifier and type
\* are invalidated
CreateInvalidate(s, identifier, otpCode, otpType) ==
    /\ OtpSlotFree(s)
    /\ otp_verifications' = invalidateOtps(otp_verifications, identifier, otpType)
    /\ otpCalls' = [otpCalls EXCEPT
                       ![s] = OtpSuspended("createOTP", identifier, otpCode,
                                           otpType, OtpExpiry(clock), Null)]
    /\ otpStarted' = otpStarted + 1
    /\ UNCHANGED <<backend, otpReturned, enforcerVars, dbVars, chatVars>>

\* createOTP from its second statement to its return: the row is inserted
CreateInsert(s) ==
    /\ otpCalls[s].op = "createOTP"
    /\ \E c \in {otpCalls[s]} :
       \E rows \in {insertOtp(otp_verifications, c.identifier, c.otp_code,
                              c.otp_type, c.expires_at)} :
           /\ otp_verifications' = rows
           /\ otpReturned' = Append(otpReturned,
                                 OtpResult("createOTP", c.identifier, c.otp_code,
                                           c.otp_type, TRUE, rows[Len(rows)]))
    /\ otpCalls' = [otpCalls EXCEPT ![s] = OtpIdle]
    /\ UNCHANGED <<backend, otpStarted, enforcerVars, dbVars, chatVars>>

\* verifyOTP when the select gives no row: 'Invalid or expired OTP'
VerifyRefuses(identifier, otpCode, otpType) ==
    /\ otpStarted < MaxOtpCalls
    /\ selectOtp(backend, otp_verifications, identifier, otpCode, otpType,
                 clock) = {}
    /\ otpReturned' = Append(otpReturned,
                          OtpResult("verifyOTP", identifier, otpCode, otpType,
                                    FALSE, Null))
    /\ otpStarted' = otpStarted + 1
    /\ UNCHANGED <<backend, otp_verifications, otpCalls, enforcerVars,
                   dbVars, chatVars>>

\* verifyOTP up to its second await: a row was selected
VerifySelect(s, identifier, otpCode, otpType) ==
    /\ OtpSlotFree(s)
    /\ \E id \in selectOtp(backend, otp_verifications, identifier, otpCode,
                           otpType, clock) :
           otpCalls' = [otpCalls EXCEPT
                           ![s] = OtpSuspended("verifyOTP", identifier, otpCode,
                                               otpType, Null,
                                               otp_verifications[id])]
    /\ otpStarted' = otpStarted + 1
    /\ UNCHANGED <<backend, otp_verifications, otpReturned, enforcerVars,
                   dbVars, chatVars>>

\* verifyOTP from its second statement to its return: the selected row is
\* marked verified and the call reports success
VerifyMark(s) ==
    /\ otpCalls[s].op = "verifyOTP"
    /\ \E c \in {otpCalls[s]} :
           /\ otp_verifications' = markVerified(otp_verifications, c.data.id)
           /\ otpReturned' = Append(otpReturned,
                                 OtpResult("verifyOTP", c.identifier, c.otp_code,
                                           c.otp_type, TRUE, c.data))
    /\ otpCalls' = [otpCalls EXCEPT ![s] = OtpIdle]
    /\ UNCHANGED <<backend, otpStarted, enforcerVars, dbVars, chatVars>>

NextOtp ==
    \/ \E s \in Slots : \E a \in OtpArguments : CreateInvalidate(s, a[1], a[2], a[3])
    \/ \E s \in Slots : CreateInsert(s)
    \/ \E a \in OtpArguments : VerifyRefuses(a[1], a[2], a[3])
    \/ \E s \in Slots : \E a \in OtpArguments : VerifySelect(s, a[1], a[2], a[3])
    \/ \E s \in Slots : VerifyMark(s)
    \/ Tick

SpecOtp == InitOtp /\ [][NextOtp]_vars

--------------------------------------------------------------------------
(* DatabaseManager: the constructor, initInMemory and the callers.         *)

\* lines 1370-1377 with no Supabase or Postgres configuration: the
\* constructor calls init, init calls initInMemory, which is suspended at
\* its import; nothing awaits it and the constructor returns
InitDb ==
    /\ NoEnforcerCalls
    /\ OtpUnused
    /\ connectionType = "none"
    /\ isConnected = FALSE
    /\ inMemoryStorage = NoStorage
    /\ memoryStore = FALSE
    /\ importing = TRUE
    /\ dbReturned = <<>>
    /\ dbStarted = 0
    /\ ChatUnused

\* lines 1454-1466: the import fails, the basic storage is created
ImportFails ==
    /\ importing
    /\ importing' = FALSE
    /\ inMemoryStorage' = basicStorage
    /\ isConnected' = TRUE
    /\ connectionType' = "in-memory"
    /\ UNCHANGED <<memoryStore, dbReturned, dbStarted, enforcerVars, otpVars,
                   chatVars>>

\* lines 1452-1453, 1466-1467: the import succeeds, memoryStore is
\* assigned and inMemoryStorage is not
ImportSucceeds ==
    /\ importing
    /\ importing' = FALSE
    /\ memoryStore' = TRUE
    /\ isConnected' = TRUE
    /\ connectionType' = "in-memory"
    /\ UNCHANGED <<inMemoryStorage, dbReturned, dbStarted, enforcerVars,
                   otpVars, chatVars>>

\* a caller calls createOrganization(orgData)
CreateOrganization(orgData) ==
    /\ dbStarted < MaxDbCalls
    /\ \E out \in {createOrganization(connectionType, inMemoryStorage, orgData)} :
           /\ inMemoryStorage' = out.storage
           /\ dbReturned' = Append(dbReturned,
                                DbCall("createOrganization", orgData.id,
                                       Present(orgData), out.settles))
    /\ dbStarted' = dbStarted + 1
    /\ UNCHANGED <<connectionType, isConnected, memoryStore, importing,
                   enforcerVars, otpVars, chatVars>>

\* a caller calls getOrganization(orgId)
GetOrganization(orgId) ==
    /\ dbStarted < MaxDbCalls
    /\ dbReturned' = Append(dbReturned,
                         DbCall("getOrganization", orgId, Absent,
                                getOrganization(connectionType, inMemoryStorage,
                                                orgId)))
    /\ dbStarted' = dbStarted + 1
    /\ UNCHANGED <<connectionType, isConnected, inMemoryStorage, memoryStore,
                   importing, enforcerVars, otpVars, chatVars>>

NextDb ==
    \/ ImportFails
    \/ ImportSucceeds
    \/ \E orgData \in Organizations : CreateOrganization(orgData)
    \/ \E orgId \in OrgIds : GetOrganization(orgId)

SpecDb == InitDb /\ [][NextDb]_vars

--------------------------------------------------------------------------
(* POST /api/chat: requests answered one after the other.                  *)

\* line 34: openai is a client when OPENAI_API_KEY is set, null otherwise;
\* chat_messages is empty and no request has been made
InitChat ==
    /\ NoEnforcerCalls
    /\ OtpUnused
    /\ DbUnused
    /\ openai \in BOOLEAN
    /\ chat_messages = <<>>
    /\ chatRequest = NoRequest
    /\ chatAnswer = NoAnswer
    /\ chatServed = 0

\* one request, from its arrival to its answer
PostChat(body, completion, saveFails) ==
    /\ chatServed < MaxChatRequests
    /\ \E out \in {postChat(body, openai, completion, saveFails, clock)} :
           /\ chatAnswer' = [status |-> out.status, json |-> out.json]
           /\ chat_messages' = chat_messages \o out.saves
    /\ chatRequest' = [made |-> TRUE, body |-> body, completion |-> completion,
                       saveFails |-> saveFails]
    /\ chatServed' = chatServed + 1
    /\ UNCHANGED <<openai, enforcerVars, otpVars, dbVars>>

NextChat ==
    \E body \in ChatBodies : \E saveFails \in BOOLEAN :
        \E completion \in IF openai THEN ChatCompletions ELSE {NoCompletion} :
            PostChat(body, completion, saveFails)

SpecChat == InitChat /\ [][NextChat]_vars


--------------------------------------------------------------------------
(* Vocabulary of the properties.                                           *)

\* the latest call has returned a report
Returned == status = "returned"

\* the latest call names a profile of the registry
KnownProfile == call.agent \in RegistryKeys

\* the commitment types of the violations of a report
ViolatedTypes(r) ==
    {r.violations[i].commitmentType : i \in 1..Len(r.violations)}

\* the rule of a profile for a commitment type
RuleOf(agent, type) ==
    LET entries == AGENT_COMMITMENTS(agent)
    IN  entries[CHOOSE i \in 1..Len(entries) : entries[i].type = type]

\* the finalResponse property of a returned object
FinalOutput(r) ==
    IF "finalResponse" \in DOMAIN r THEN r.finalResponse ELSE Undefined

\* the score of one rule of the latest call
ScoreOfCall(rule) ==
    commitmentScore(rule.type, call.agent, call.message, call.response,
                    call.metadata)

\* a score meets its target: at most the target for latency, at least the
\* target for every other type
MeetsTarget(rule, score) ==
    IF rule.type = "responseTime" THEN LessEq(score, rule.target)
    ELSE GreaterEq(score, rule.target)

\* every rule of the latest call's profile meets its target
AllRulesPass ==
    \A i \in 1..Len(AGENT_COMMITMENTS(call.agent)) :
        MeetsTarget(AGENT_COMMITMENTS(call.agent)[i],
                    ScoreOfCall(AGENT_COMMITMENTS(call.agent)[i]))

\* one stage of a serial remediation: the working output after the
\* remediation of rule was applied to it
SerialStage(rule, result, working, metadata) ==
    LET adjustment == applyEnforcement(rule.type, rule, result, working, metadata)
    IN  IF adjustment.success THEN adjustment.adjustedResponse ELSE working

--------------------------------------------------------------------------
(* Properties.                                                             *)

\* C1: when exactly two rules R1, R2 fail in declared order, finalResponse
\* is R2's remediation applied to the output of R1's remediation applied
\* to the candidate output; a failed remediation passes its input on.
C1_SerialRemediation ==
    (Returned /\ KnownProfile /\ Len(report.violations) = 2) =>
        LET v1 == report.violations[1]
            v2 == report.violations[2]
            r1 == RuleOf(call.agent, v1.commitmentType)
            r2 == RuleOf(call.agent, v2.commitmentType)
        IN  report.finalResponse =
                SerialStage(r2, v2,
                    SerialStage(r1, v1, call.response, call.metadata),
                    call.metadata)

\* C2: a call naming a profile that is not a key of the registry returns
\* a report with passed = true and finalResponse equal to the candidate
\* output.
C2_UnknownProfileNoOp ==
    (Returned /\ ~KnownProfile) =>
        (report.passed = TRUE /\ FinalOutput(report) = call.response)

\* C3: for a known profile, if every rule's score meets its target, the
\* report has passed = true, no violations, no adjustments, finalResponse
\* equal to the candidate output, and no remediation was invoked.
C3_AllPass ==
    (Returned /\ KnownProfile /\ AllRulesPass) =>
        /\ report.passed = TRUE
        /\ report.violations = <<>>
        /\ report.adjustments = <<>>
        /\ report.finalResponse = call.response
        /\ applied = <<>>

\* C3 witness: a known profile was evaluated and every rule met its target.
C3_Witness == Returned /\ KnownProfile /\ AllRulesPass /\ report.passed

\* C4: a latency rule is a violation exactly when the measured latency in
\* the metadata is strictly greater than the target; every other rule is a
\* violation exactly when its score is strictly less than its target.
C4_PassDirection ==
    (Returned /\ KnownProfile) =>
        \A i \in 1..Len(AGENT_COMMITMENTS(call.agent)) :
            LET rule == AGENT_COMMITMENTS(call.agent)[i]
            IN  (rule.type \in ViolatedTypes(report)) <=>
                    IF rule.type = "responseTime"
                    THEN /\ "responseTime" \in DOMAIN call.metadata
                         /\ Greater(Num(call.metadata.responseTime), rule.target)
                    ELSE Less(ScoreOfCall(rule), rule.target)

\* C5: adjustments has exactly one entry per entry of violations, in the
\* same order, failed remediations included.
C5_OneAdjustmentPerViolation ==
    (Returned /\ KnownProfile) =>
        /\ Len(report.adjustments) = Len(report.violations)
        /\ \A i \in 1..Len(report.violations) :
               report.adjustments[i].action =
                   RuleOf(call.agent, report.violations[i].commitmentType).fallback

\* C6: the statistics a query returns count as recentViolations the ledger
\* records made within the 24 hours before the query (the recording time
\* is the time in the record's key) and as totalViolations all records.
C6_LedgerWindowing ==
    [][stats' # stats =>
          /\ stats'.totalViolations = Cardinality(DOMAIN violations')
          /\ stats'.recentViolations =
                 Cardinality({k \in DOMAIN violations' : clock' - k[2] < DayMs})]_vars

FoldCase(c) == IF c >= 65 /\ c <= 90 THEN c + 32 ELSE c

\* phrase occurs in text, letter case ignored
ContainsIgnoringCase(text, phrase) ==
    \E i \in 1..(Len(text) - Len(phrase) + 1) :
        \A j \in 1..Len(phrase) : FoldCase(text[i + j - 1]) = FoldCase(phrase[j])

\* the message holds one of the two trigger phrases
HasTrigger(message) ==
    \/ ContainsIgnoringCase(message, TriggerFatura)
    \/ ContainsIgnoringCase(message, TriggerInvoice)

\* the output holds one keyword of the fixed set
HasZatcaKeyword(output) ==
    \E k \in 1..Len(zatcaKeywords) : ContainsIgnoringCase(output, zatcaKeywords[k])

\* the keyword-compliance score the claim prescribes
PrescribedZatcaScore(output, message) ==
    IF ~HasTrigger(message) THEN Num(100)
    ELSE IF HasZatcaKeyword(output) THEN Num(100) ELSE Num(0)

\* C8: without a trigger phrase in the input the zatcaCompliance score is
\* 100 and the rule is no violation, whatever the output; with a trigger
\* the score is 100 if a keyword occurs in the output and 0 otherwise.
C8_ApplicabilityShortCircuit ==
    (Returned /\ call.agent = Accountant) =>
        /\ validateZatcaCompliance(call.response, call.message)
               = PrescribedZatcaScore(call.response, call.message)
        /\ ~HasTrigger(call.message) =>
               "zatcaCompliance" \notin ViolatedTypes(report)
        /\ \A i \in 1..Len(report.violations) :
               report.violations[i].commitmentType = "zatcaCompliance" =>
                   /\ HasTrigger(call.message)
                   /\ ~HasZatcaKeyword(call.response)
                   /\ report.violations[i].score = Num(0)
        /\ (HasTrigger(call.message) /\ ~HasZatcaKeyword(call.response)) =>
               "zatcaCompliance" \in ViolatedTypes(report)

\* C8 witness: the accountant was evaluated on an input without trigger
\* and an output without keyword, and zatcaCompliance is no violation.
C8_Witness ==
    /\ Returned
    /\ call.agent = Accountant
    /\ ~HasTrigger(call.message)
    /\ ~HasZatcaKeyword(call.response)
    /\ "zatcaCompliance" \notin ViolatedTypes(report)

\* C9: no call is rejected; a rule whose scoring faults (the latency rule
\* when the caller passed no metadata) is recorded as a violation in the
\* report that is returned.
C9_FaultIsolation ==
    /\ status # "threw"
    /\ (Returned /\ call.agent = Accountant /\ ~call.metadata.present) =>
           "responseTime" \in ViolatedTypes(report)

\* C10: a cached_response remediation that finds no cache entry returns
\* success = false with adjustedResponse equal to the output it was given,
\* and finalResponse stays a string.
C10_FailedServeCachedKeepsOutput ==
    Returned =>
        \A i \in 1..Len(applied) :
            (applied[i].action = "cached_response" /\ ~applied[i].success) =>
                /\ applied[i].adjustedResponse = call.response
                /\ FinalOutput(report) # Null

\* the rule whose failure the i-th applyEnforcement call of the latest
\* call remedied
RuleApplied(i) == RuleOf(call.agent, report.violations[i].commitmentType)

\* the error events logged for one commitment type and action
ErrorEvents(type, action) ==
    {j \in 1..Len(logged) :
        /\ logged[j].level = "error"
        /\ logged[j].commitmentType = type
        /\ logged[j].action = action}

\* the output of the last successful remediation among the first n, or
\* the candidate output when none succeeded
RECURSIVE LastSuccessful(_)
LastSuccessful(n) ==
    IF n = 0 THEN call.response
    ELSE IF applied[n].success THEN applied[n].adjustedResponse
         ELSE LastSuccessful(n - 1)

\* C11: when the remediation of a failed rule raises, applyEnforcement
\* still returns, with success = false and adjustedResponse equal to the
\* output it was given; exactly one error event with the commitment type
\* and the action name is logged; and the evaluation returns a report
\* whose finalResponse is what the other remediations left.
C11_RemediationFaultContained ==
    (Returned /\ KnownProfile) =>
        /\ Len(applied) = Len(report.violations)
        /\ report.finalResponse = LastSuccessful(Len(applied))
        /\ \A i \in 1..Len(applied) :
               enforcementThrows(RuleApplied(i), call.metadata) =>
                   /\ applied[i].success = FALSE
                   /\ applied[i].adjustedResponse = call.response
                   /\ applied[i].action = RuleApplied(i).fallback
                   /\ Cardinality(ErrorEvents(RuleApplied(i).type,
                                              RuleApplied(i).fallback)) = 1

\* C11 witness: the structured-template remediation raised on a missing
\* metadata argument, and the call returned a report.
C11_Witness ==
    /\ Returned
    /\ call.agent = Secretary
    /\ ~call.metadata.present
    /\ \E i \in 1..Len(applied) :
           /\ applied[i].action = "structured_template"
           /\ ~applied[i].success
           /\ applied[i].adjustedResponse = call.response


\* the warning events logged for one action
WarningEvents(action) ==
    {j \in 1..Len(logged) :
        logged[j].level = "warn" /\ logged[j].action = action}

\* C12: when a failed rule names a fallback action that applyEnforcement
\* does not implement (multiLanguageSupport names language_detection), the
\* call still returns, the applyEnforcement result has success = false and
\* the output it was given, and a warning naming the action is logged.
C12_UnknownFallbackWarns ==
    (Returned /\ KnownProfile) =>
        \A i \in 1..Len(applied) :
            applied[i].action = "language_detection" =>
                /\ applied[i].success = FALSE
                /\ applied[i].adjustedResponse = call.response
                /\ WarningEvents("language_detection") # {}


\* the number of violations in what a call returned
ViolationCount(r) ==
    IF "violations" \in DOMAIN r THEN Len(r.violations) ELSE 0

\* C13: every call adds to the ledger as many records as its report has
\* violations (none when it passes), so that the number of ledger records
\* is the total number of violations reported so far.
C13_EveryViolationRecorded ==
    [][served' = served + 1 =>
          Cardinality(DOMAIN violations') =
              Cardinality(DOMAIN violations) + ViolationCount(report')]_vars


\* C14: whenever a call returns a failed report, the ledger gains one
\* record and keeps every record it had, also when other calls were
\* suspended meanwhile and another failed call of the same profile wrote
\* its record at the same clock reading.
C14_NoLostLedgerWrites ==
    [][(served' = served + 1 /\ status' = "returned" /\ ~report'.passed) =>
          /\ Cardinality(DOMAIN violations') = Cardinality(DOMAIN violations) + 1
          /\ \A k \in DOMAIN violations : violations'[k] = violations[k]]_vars


\* a score from 0 to 100
InRange(score) ==
    ~IsNaN(score) /\ GreaterEq(score, Num(0)) /\ LessEq(score, Num(100))

\* C15: for every rule of the profile other than the latency rule, the
\* score the validator gives the call lies between 0 and 100.
C15_ScoreRange ==
    (Returned /\ KnownProfile) =>
        \A i \in 1..Len(AGENT_COMMITMENTS(call.agent)) :
            AGENT_COMMITMENTS(call.agent)[i].type # "responseTime" =>
                InRange(ScoreOfCall(AGENT_COMMITMENTS(call.agent)[i]))


\* a time budget of an evaluation; the source configures none, and any
\* budget shorter than the smallest clock advance serves here
TimeBudget == HourMs \div 2

\* C16: once a call has checked some of its rules and more time than the
\* budget has passed since it was made, it checks no further rule (the
\* remaining ones are skipped and the report is returned as it stands).
C16_Cancellation ==
    [][\A s \in Slots :
          (/\ running[s].busy
           /\ running[s].next > 1
           /\ clock - running[s].since > TimeBudget
           /\ running'[s].busy) =>
              running'[s].next = running[s].next]_vars


\* every cache lookup of the latest call missed and left success = false
\* and the output it was given
CacheMissDegrades ==
    \A i \in 1..Len(applied) :
        applied[i].action = "cached_response" =>
            /\ applied[i].success = FALSE
            /\ applied[i].adjustedResponse = call.response

\* C17: a call that has ended has returned a report, and in it a cache
\* lookup that found nothing has success = false and the original text.
C17_BoundedCacheLookup ==
    status \notin {"idle", "pending"} => (Returned /\ CacheMissDegrades)


ViolationOf(rule) ==
    [commitmentType |-> rule.type, passed |-> FALSE,
     score |-> ScoreOfCall(rule), target |-> rule.target,
     enforcement |-> rule.enforcement]

\* the rules from entry i on whose score does not meet the target, as
\* violations, in declared order
RECURSIVE FailingFrom(_, _)
FailingFrom(entries, i) ==
    IF i > Len(entries) THEN <<>>
    ELSE IF MeetsTarget(entries[i], ScoreOfCall(entries[i]))
         THEN FailingFrom(entries, i + 1)
         ELSE <<ViolationOf(entries[i])>> \o FailingFrom(entries, i + 1)

\* C19: in the report of a known profile, passed is true exactly when
\* violations is empty, and violations lists exactly the rules whose score
\* does not meet the target, once each, in declared order, with the rule's
\* type, score, target and enforcement level.
C19_VerdictConsistency ==
    (Returned /\ KnownProfile) =>
        /\ report.passed <=> report.violations = <<>>
        /\ report.violations = FailingFrom(AGENT_COMMITMENTS(call.agent), 1)

\* C19 witness: a report with two or more violations, the latency rule
\* among them, for a profile of which another rule passed.
C19_Witness ==
    /\ Returned
    /\ KnownProfile
    /\ Len(report.violations) >= 2
    /\ Len(report.violations) < Len(AGENT_COMMITMENTS(call.agent))
    /\ "responseTime" \in ViolatedTypes(report)
    /\ ~report.passed


\* the score of a rule of the latest call for another output
Rescored(rule, output) ==
    commitmentScore(rule.type, call.agent, call.message, output, call.metadata)

\* C20: for every violation of a rule with enforcement MANDATORY, the
\* remediation was applied with success, and its output, scored again by
\* the same validator for the same message, meets the rule's target.
C20_MandatoryResolves ==
    (Returned /\ KnownProfile) =>
        \A i \in 1..Len(report.violations) :
            report.violations[i].enforcement = "MANDATORY" =>
                /\ applied[i].success
                /\ MeetsTarget(RuleApplied(i),
                               Rescored(RuleApplied(i), applied[i].adjustedResponse))


\* the commitment types of the rules of the latest call's profile whose
\* score for the candidate output does not meet the target
FailingTypes ==
    {AGENT_COMMITMENTS(call.agent)[i].type :
        i \in {j \in 1..Len(AGENT_COMMITMENTS(call.agent)) :
                 ~MeetsTarget(AGENT_COMMITMENTS(call.agent)[j],
                              ScoreOfCall(AGENT_COMMITMENTS(call.agent)[j]))}}

\* C21: every score of a report is the score of the candidate output,
\* whatever the remediations of earlier rules made of it, and the rules
\* reported as violations are those that fail when all rules are scored
\* on the candidate output before any remediation.
C21_ScoringIgnoresRemediation ==
    (Returned /\ KnownProfile) =>
        /\ ViolatedTypes(report) = FailingTypes
        /\ \A i \in 1..Len(report.violations) :
               report.violations[i].score = ScoreOfCall(RuleApplied(i))

\* C21 witness: an earlier rule's remediation changed the output and a
\* later violated rule would have scored differently on the changed output.
C21_Witness ==
    /\ Returned
    /\ KnownProfile
    /\ \E i, j \in 1..Len(report.violations) :
           /\ i < j
           /\ applied[i].success
           /\ applied[i].adjustedResponse # call.response
           /\ Rescored(RuleApplied(j), applied[i].adjustedResponse)
                  # report.violations[j].score


\* a construct of the denylist occurs in the output
HasDenylisted(output) ==
    \E k \in 1..Len(securityIssues) : Includes(output, securityIssues[k])

\* the output is detected as containing code
DetectedAsCode(output) ==
    \E k \in 1..Len(codeMarkers) : Includes(output, codeMarkers[k])

\* C22: the code-security score of an output is 100 when the output is not
\* detected as containing code; otherwise it is 0 when a construct of the
\* denylist occurs in it and 100 when none does; the rule is reported as a
\* violation exactly in the case that scores 0; and the output followed by
\* any construct of the denylist scores 0 unless it is not detected as
\* code.
C22_SecurityScoring ==
    (Returned /\ call.agent = Programmer) =>
        /\ \A k \in 1..Len(securityIssues) :
               validateSecurityCompliance(call.response \o securityIssues[k]) =
                   IF DetectedAsCode(call.response \o securityIssues[k])
                   THEN Num(0) ELSE Num(100)
        /\ validateSecurityCompliance(call.response) =
               IF DetectedAsCode(call.response) /\ HasDenylisted(call.response)
               THEN Num(0) ELSE Num(100)
        /\ ("securityCompliance" \in ViolatedTypes(report)) <=>
               (DetectedAsCode(call.response) /\ HasDenylisted(call.response))

\* C22 witness: an output detected as code with a denylisted construct was
\* scored 0 and reported.
C22_Witness ==
    /\ Returned
    /\ call.agent = Programmer
    /\ DetectedAsCode(call.response)
    /\ HasDenylisted(call.response)
    /\ \E i \in 1..Len(report.violations) :
           /\ report.violations[i].commitmentType = "securityCompliance"
           /\ report.violations[i].score = Num(0)


\* the output has a structural marker: a line break or a bullet
HasStructuralMarker(output) == \E k \in 1..Len(output) : output[k] \in {10, 8226}

\* C23: whenever the structured-template remediation is invoked it reports
\* success; its output is the output it was given when that has a
\* structural marker and the fixed template around it otherwise; and
\* restructuring its output again leaves it unchanged.
C23_RestructureIdempotent ==
    Returned =>
        \A i \in 1..Len(applied) :
            applied[i].action = "structured_template" =>
                /\ applied[i].success
                /\ applied[i].adjustedResponse =
                       IF HasStructuralMarker(call.response)
                       THEN call.response
                       ELSE StructuredPrefix \o call.response \o StructuredSuffix
                /\ applyStructuredTemplate(applied[i].adjustedResponse, call.message)
                       = applied[i].adjustedResponse


\* C24: whenever the code-review remediation is invoked in an evaluation,
\* it is for a failed codeQuality rule, it reports success, and its output
\* is the output it was given followed by the code-review reminder.
C24_ReviewCodeAppends ==
    Returned =>
        \A i \in 1..Len(applied) :
            applied[i].action = "code_review" =>
                /\ report.violations[i].commitmentType = "codeQuality"
                /\ applied[i].success
                /\ applied[i].adjustedResponse = call.response \o CodeReviewSuffix
                /\ applied[i].adjustedResponse # call.response

\* C24 witness: a codeQuality violation was remedied by code_review.
C24_Witness ==
    /\ Returned
    /\ call.agent = Programmer
    /\ \E i \in 1..Len(applied) :
           /\ applied[i].action = "code_review"
           /\ report.violations[i].commitmentType = "codeQuality"
           /\ Len(applied[i].adjustedResponse) > Len(call.response)


\* the rules with every enforcement level replaced by level
WithLevel(entries, level) ==
    [i \in 1..Len(entries) |-> [entries[i] EXCEPT !.enforcement = level]]

\* what the latest call would have computed had every rule of its profile
\* carried the enforcement level level
OutcomeAtLevel(level) ==
    checkEachCommitment(WithLevel(AGENT_COMMITMENTS(call.agent), level), 1,
                        call.agent, call.message, call.response, call.metadata,
                        atEntry(call.agent, call.response))

\* a violation or an adjustment without its enforcement level
WithoutLevel(r) ==
    [f \in DOMAIN r \ {"enforcement", "enforcementType"} |-> r[f]]

\* a report without the enforcement levels in it
ReportWithoutLevels(r) ==
    [passed |-> r.passed,
     violations |-> [i \in 1..Len(r.violations) |-> WithoutLevel(r.violations[i])],
     adjustments |-> [i \in 1..Len(r.adjustments) |-> WithoutLevel(r.adjustments[i])],
     finalResponse |-> r.finalResponse]

\* the report and rejection of the latest call are what every assignment
\* of one level to all rules gives
SameAtEveryLevel ==
    \A level \in {"STRICT", "MANDATORY"} :
        \E alt \in {OutcomeAtLevel(level)} :
            /\ alt.threw <=> status = "threw"
            /\ ~alt.threw =>
                   ReportWithoutLevels(alt.results) = ReportWithoutLevels(report)

\* C25: a call for a known profile always ends with a report whose
\* finalResponse is a text, also when a MANDATORY rule failed and its
\* remediation failed; and passed, the violations' scores, the adjustments
\* and finalResponse are the same whichever enforcement level the rules
\* carry.
C25_LevelHasNoInfluence ==
    (status \notin {"idle", "pending"} /\ KnownProfile) =>
        /\ Returned
        /\ FinalOutput(report) \notin {Null, Undefined}
        /\ SameAtEveryLevel


\* none of the three phrases adjustTone replaces occurs in the text
FreeOfCasualPhrases(text) ==
    /\ ~Includes(text, CasualMarhaba)
    /\ ~Includes(text, CasualOki)
    /\ ~Includes(text, CasualTamam)

\* C28: for the output of every call, after adjustTone none of the three
\* casual phrases it replaces occurs in the result, and applying adjustTone
\* a second time returns the result unchanged.
C28_RetoneIdempotent ==
    status # "idle" =>
        \E retoned \in {adjustTone(call.response)} :
            /\ FreeOfCasualPhrases(retoned)
            /\ adjustTone(retoned) = retoned


\* the call or result x is for op with the arguments a
OtpCallOf(x, op, a) ==
    /\ x.op = op
    /\ <<x.identifier, x.otp_code, x.otp_type>> = a

\* how many createOTP calls, finished or in flight, were made with a
CreatedTimes(a) ==
    Cardinality({i \in DOMAIN otpReturned : OtpCallOf(otpReturned[i], "createOTP", a)})
    + Cardinality({s \in Slots : OtpCallOf(otpCalls[s], "createOTP", a)})

\* the finished verifyOTP calls with the arguments a that reported success
VerifiedWith(a) ==
    {i \in DOMAIN otpReturned :
        OtpCallOf(otpReturned[i], "verifyOTP", a) /\ otpReturned[i].success}

\* C26: for an (identifier, otpCode, otpType) that createOTP created once,
\* at most one verifyOTP call returns success = true, however concurrent
\* verifyOTP calls interleave.
C26_OtpSingleUse ==
    \A a \in OtpArguments :
        CreatedTimes(a) <= 1 => Cardinality(VerifiedWith(a)) <= 1

\* the unverified rows of an identifier and type
LiveOtps(identifier, otpType) ==
    {i \in DOMAIN otp_verifications :
        /\ otp_verifications[i].identifier = identifier
        /\ otp_verifications[i].otp_type = otpType
        /\ ~otp_verifications[i].is_verified}

\* C27: whatever createOTP calls were made for an (identifier, otpType),
\* also concurrent ones whose invalidate and insert steps interleave, at
\* most one row of the pair is unverified.
C27_OneLiveOtp ==
    \A a \in OtpArguments : Cardinality(LiveOtps(a[1], a[3])) <= 1


\* the orgData of the latest createOrganization call for orgId among the
\* first n finished calls; Absent when there is none
RECURSIVE LastCreated(_, _)
LastCreated(orgId, n) ==
    IF n = 0 THEN Absent
    ELSE IF dbReturned[n].op = "createOrganization" /\ dbReturned[n].orgId = orgId
         THEN dbReturned[n].arg
         ELSE LastCreated(orgId, n - 1)

\* C29: with no Supabase or Postgres configuration, once initInMemory is
\* over the connection type is 'in-memory' and isConnected is true; and a
\* getOrganization(id) made at any time after the constructor returned,
\* also before initInMemory is over, is fulfilled with the orgData of the
\* latest createOrganization made before it for that id.
C29_RoundTrip ==
    /\ ~importing => (connectionType = "in-memory" /\ isConnected)
    /\ \A n \in DOMAIN dbReturned :
           (dbReturned[n].op = "getOrganization"
            /\ LastCreated(dbReturned[n].orgId, n - 1).present) =>
               dbReturned[n].settles =
                   Fulfilled(LastCreated(dbReturned[n].orgId, n - 1).value)


\* the request r carries no message: the field is missing or empty
NoMessage(r) == ~r.body.message.present \/ r.body.message.value = <<>>

\* the reply text of the request r was produced: by the fallback, or by a
\* generation service that did not raise
ReplyProduced(r) == ~(openai /\ r.completion.throws)

\* the reply text produced for the request r
ReplyOf(r) ==
    chatReply(openai,
              IF r.body.agent.present THEN r.body.agent.value ELSE Accountant,
              r.completion.content)

\* C30: a request with a non-empty message whose reply text was produced
\* is answered with status 200 and that reply, whether saving the chat
\* message succeeds or fails; a request with no message is answered with
\* status 400 and no row is saved.
C30_ReplySurvivesSaveFailure ==
    [][chatServed' # chatServed =>
          /\ (~NoMessage(chatRequest') /\ ReplyProduced(chatRequest')) =>
                 /\ chatAnswer'.status = 200
                 /\ chatAnswer'.json.response = ReplyOf(chatRequest')
          /\ NoMessage(chatRequest') =>
                 /\ chatAnswer'.status = 400
                 /\ chat_messages' = chat_messages]_vars

\* a request with a message was answered with its reply although the save
\* failed and no row was written for it
C30_Witness ==
    /\ chatRequest.made
    /\ ~NoMessage(chatRequest)
    /\ ReplyProduced(chatRequest)
    /\ chatRequest.saveFails
    /\ chatAnswer.status = 200
    /\ chatAnswer.json.response = ReplyOf(chatRequest)
    /\ chat_messages = <<>>

============================================================================
